---- MODULE Spec2Model ----
(***************************************************************************)
(* The tool execution core of the NLRAD dashboard: the tool registry       *)
(* (backend/core/registry.py), the executor (backend/core/executor.py),    *)
(* the result envelope and error hierarchy (backend/lib) and the shared    *)
(* context logger (backend/adapters/logger.py); the timeline and the       *)
(* force-load tool with their models (backend/tools, backend/models);      *)
(* the force-load page (ui/tools/RAD/ingestor/force_load_ui.py); the       *)
(* category tree with the navigation and the content area that consume it  *)
(* (ui/registry.py, ui/components); and the shared resource cache          *)
(* (backend/core/model_loader.py).                                         *)
(*                                                                         *)
(* Python strings are sequences of string tokens ("RAD/ingestor" is        *)
(* <<"RAD", "/", "ingestor">>), so that concatenation is \o and           *)
(* str.split('/') can be computed.  An Optional value is None == <<>> or   *)
(* Some(v) == <<v>>.                                                       *)
(***************************************************************************)
EXTENDS Naturals, Integers, Sequences, FiniteSets, TLC

VARIABLES
    _tools,           \* Registry._tools: ordered mapping path -> tool class
    filters,          \* filters of the one logger logging.getLogger(__name__)
    uuid_count,       \* number of uuid.uuid4() values drawn so far
    instance_count,   \* number of tool objects get_tool has constructed so far
    ncalls,           \* number of execute() calls begun
    call,             \* per thread: the frame of its execute() call
    returned,         \* (call number, request_id) of every Result returned
    modules,          \* the modules under backend/tools of this installation
    walked,           \* number of them Registry._walk_package has gone through
    FORCE_LOAD_TABLES,\* ingestor_force.FORCE_LOAD_TABLES: table -> its 'data' list
    ui,               \* the ForceLoadUI object's fields
    ui_ops,           \* number of ForceLoadUI callbacks run so far
    _structure,       \* Registry._structure: the category tree, once built
    content,          \* what the ContentArea displays
    _cache,           \* ModelLoader._cache: key -> cached instance
    getter,           \* per thread: the frame of its ModelLoader.get() call
    factory_calls,    \* per key: number of times a factory was invoked for it
    received          \* (key, instance) of every value ModelLoader.get returned

vars == <<_tools, filters, uuid_count, instance_count, ncalls, call, returned,
          modules, walked, FORCE_LOAD_TABLES, ui, ui_ops,
          _structure, content, _cache, getter, factory_calls, received>>

\* The content area and the model loader, which neither the registry, the
\* executor nor the force-load page touches.
apart == <<content, _cache, getter, factory_calls, received>>

\* What the executor's steps leave alone: the installation, the force-load
\* tables, the force-load page, the content area and the model loader.
elsewhere == <<modules, walked, FORCE_LOAD_TABLES, ui, ui_ops, _structure, apart>>

\* Total number of execute() calls in a behaviour.
MaxCalls == 3

\* The host's threads; each runs its execute() calls one after the other.
Threads == {"t1", "t2"}

(***************************************************************************)
(* Python values                                                           *)
(***************************************************************************)
None == <<>>
Some(v) == <<v>>

EmptyStr == <<>>

\* bool(x) of an Optional[str]: None and "" are falsy.
Truthy(opt) == opt # None /\ opt[1] # EmptyStr

\* `a or b` where a is Optional[str] and b is a str.
PyOr(a, b) == IF Truthy(a) THEN a[1] ELSE b

\* A Python object passed as a parameter value: its type, its str() and, for
\* a list, its items.
PyStr(s) == [type |-> "str", str |-> s, items |-> <<>>]

PyInt(digits) == [type |-> "int", str |-> <<digits>>, items |-> <<>>]

PyBool(b) ==
    [type |-> "bool", str |-> <<IF b THEN "True" ELSE "False">>, items |-> <<>>]

PyNone == [type |-> "NoneType", str |-> <<"None">>, items |-> <<>>]

PyList(items) == [type |-> "list", str |-> <<>>, items |-> items]

\* bool(x) of a parameter value.
PyTruth(x) ==
    CASE x.type = "str" -> x.str # EmptyStr
      [] x.type = "int" -> x.str # <<"0">>
      [] x.type = "bool" -> x.str = <<"True">>
      [] x.type = "NoneType" -> FALSE
      [] x.type = "list" -> x.items # <<>>

\* A dict literal: the keys given a value, those left None being absent.
Dict(opt) == [k \in {j \in DOMAIN opt : opt[j] # None} |-> opt[k][1]]

\* ', '.join(names)
RECURSIVE Join(_, _)
Join(names, i) ==
    IF i > Len(names) THEN <<>>
    ELSE (IF i > 1 THEN <<", ">> ELSE <<>>) \o names[i] \o Join(names, i + 1)

\* `needle in text` for strings.
Contains(text, needle) ==
    \E i \in 1..(Len(text) + 1 - Len(needle)) :
        SubSeq(text, i, i + Len(needle) - 1) = needle

(***************************************************************************)
(* backend/lib/errors.py                                                   *)
(***************************************************************************)
\* The direct base class of each exception class.  CustomToolError stands
\* for a subclass of ToolExecutionError defined by a tool module.
Base(cls) ==
    CASE cls = "ToolExecutionError" -> "Exception"
      [] cls = "ToolNotFoundError" -> "Exception"
      [] cls = "ParameterValidationError" -> "ToolExecutionError"
      [] cls = "DataAccessError" -> "ToolExecutionError"
      [] cls = "BusinessLogicError" -> "ToolExecutionError"
      [] cls = "UINotFoundError" -> "Exception"
      [] cls = "CustomToolError" -> "ToolExecutionError"
      [] cls = "ValueError" -> "Exception"
      [] cls = "TypeError" -> "Exception"
      [] cls = "Exception" -> "BaseException"
      [] OTHER -> "object"

RECURSIVE IsSubclass(_, _)
IsSubclass(cls, base) ==
    \/ cls = base
    \/ /\ cls \notin {"BaseException", "object"}
       /\ IsSubclass(Base(cls), base)

\* ToolExecutionError.__init__(message, user_message=None), also inherited
\* by every subclass; str(e) is `message`.
ToolExecutionError(cls, message, user_message) ==
    [cls |-> cls, message |-> message,
     user_message |-> Some(PyOr(user_message, message))]

\* An exception class that does not define user_message.
PlainException(cls, message) ==
    [cls |-> cls, message |-> message, user_message |-> None]

(***************************************************************************)
(* backend/lib/result.py                                                   *)
(***************************************************************************)
Result(success, data, error_message, error_type, user_message, request_id, traceback) ==
    [success |-> success, data |-> data, error_message |-> error_message,
     error_type |-> error_type, user_message |-> user_message,
     request_id |-> request_id, traceback |-> traceback]

success_result(data, request_id) ==
    Result(TRUE, data, None, None, None, Some(request_id), None)

error_result(message, request_id, error_type, user_message, traceback) ==
    Result(FALSE, None, Some(message), Some(error_type),
           Some(PyOr(user_message, message)), Some(request_id), traceback)

(***************************************************************************)
(* backend/core/base_tool.py and the tool classes                          *)
(***************************************************************************)
\* category and name of each tool class.  AnyTool stands for an arbitrary
\* BaseTool subclass placed under backend/tools; TimelineToolV2 for one that
\* declares the category and name TimelineTool already has, ReplayTool for
\* one defined next to it; BaseTool itself, and a subclass that sets neither
\* attribute (DraftTool), leave both None.
ToolClass(cls) ==
    CASE cls = "TimelineTool" ->
            [category |-> Some(<<"RAD", "/", "ingestor">>), name |-> Some(<<"timeline">>)]
      [] cls = "ForceLoadTool" ->
            [category |-> Some(<<"RAD", "/", "Ingestor">>), name |-> Some(<<"Force Load">>)]
      [] cls = "AnyTool" ->
            [category |-> Some(<<"X">>), name |-> Some(<<"any">>)]
      [] cls = "TimelineToolV2" ->
            [category |-> Some(<<"RAD", "/", "ingestor">>), name |-> Some(<<"timeline">>)]
      [] cls = "ReplayTool" ->
            [category |-> Some(<<"RAD", "/", "ingestor">>), name |-> Some(<<"replay">>)]
      [] cls = "ArchiveTool" ->
            [category |-> Some(<<"X", "/", "_tools">>), name |-> Some(<<"archive">>)]
      [] OTHER ->
            [category |-> None, name |-> None]

\* BaseTool.__init__ raises ValueError unless category and name are truthy.
Constructible(cls) ==
    Truthy(ToolClass(cls).category) /\ Truthy(ToolClass(cls).name)

\* BaseTool.full_path: f"{self.category}/{self.name}"
full_path(cls) == ToolClass(cls).category[1] \o <<"/">> \o ToolClass(cls).name[1]

ExecutionContext(request_id, user, tool_path, params) ==
    [request_id |-> request_id, user |-> user, tool_path |-> tool_path,
     params |-> params]

(***************************************************************************)
(* backend/core/registry.py                                                *)
(***************************************************************************)
\* The modules pkgutil.walk_packages finds under backend/tools, in its
\* (alphabetical) order, each with the BaseTool subclasses it defines.
\* any_tool stands for a further tool module a developer adds.
ToolModules ==
    << [modname |-> "RAD.ingestor.any_tool", importable |-> TRUE,
        classes |-> <<"AnyTool">>],
       [modname |-> "RAD.ingestor.force_load_tool", importable |-> TRUE,
        classes |-> <<"ForceLoadTool">>],
       [modname |-> "RAD.ingestor.timeline_tool", importable |-> TRUE,
        classes |-> <<"TimelineTool">>] >>

\* The installations considered: the repository as it is, and the repository
\* with the further tool module.
Installations == { SubSeq(ToolModules, 2, 3), ToolModules }

\* Modules a developer may add next to the repository's two, in the order
\* pkgutil.walk_packages yields them: one whose tool sits in a category
\* named '_tools', one that fails to import, one whose class cannot be
\* instantiated, and one whose first class takes the path of TimelineTool.
ModulePool ==
    << ToolModules[1],
       [modname |-> "RAD.ingestor.archive_tool", importable |-> TRUE,
        classes |-> <<"ArchiveTool">>],
       [modname |-> "RAD.ingestor.broken_tool", importable |-> FALSE,
        classes |-> <<"BrokenTool">>],
       [modname |-> "RAD.ingestor.draft_tool", importable |-> TRUE,
        classes |-> <<"DraftTool">>],
       ToolModules[2],
       ToolModules[3],
       [modname |-> "RAD.ingestor.timeline_v2_tool", importable |-> TRUE,
        classes |-> <<"TimelineToolV2", "ReplayTool">>] >>

\* The modules of the pool at the positions in S, in the pool's order.
RECURSIVE Pick(_, _)
Pick(S, i) ==
    IF i > Len(ModulePool) THEN <<>>
    ELSE (IF i \in S THEN <<ModulePool[i]>> ELSE <<>>) \o Pick(S, i + 1)

\* Every installation that holds the repository's two tool modules.
StartupInstallations ==
    { Pick(S \cup {5, 6}, 1) : S \in SUBSET {1, 2, 3, 4, 7} }

\* `path in self._tools`
HasPath(tools, path) == \E i \in 1..Len(tools) : tools[i].path = path

\* self._tools[path]
ClassAt(tools, path) ==
    tools[CHOOSE i \in 1..Len(tools) : tools[i].path = path].cls

\* list(self._tools.keys())
list_all_tools(tools) == [i \in 1..Len(tools) |-> tools[i].path]

\* A registration keyed by the tool's name alone.
register_by_name(tools, tool_class) ==
    IF ~Constructible(tool_class)
    THEN [tools |-> tools, raised |-> FALSE]
    ELSE IF HasPath(tools, ToolClass(tool_class).name[1])
         THEN [tools |-> tools, raised |-> TRUE]
         ELSE [tools |-> Append(tools, [path |-> ToolClass(tool_class).name[1],
                                        cls |-> tool_class]),
               raised |-> FALSE]

\* Registry._register_tool: the mapping afterwards, and whether it raised.
\* The class is instantiated to read its full_path; a class that cannot be
\* instantiated is skipped; a path already present raises ValueError.
_register_tool(tools, tool_class) ==
    IF ~Constructible(tool_class)
    THEN [tools |-> tools, raised |-> FALSE]
    ELSE IF HasPath(tools, full_path(tool_class))
         THEN [tools |-> tools, raised |-> TRUE]
         ELSE [tools |-> Append(tools, [path |-> full_path(tool_class),
                                        cls |-> tool_class]),
               raised |-> FALSE]

\* The for loop over one module's classes (registry.py:72-76); an exception
\* raised by _register_tool leaves the loop.
RECURSIVE RegisterClasses(_, _, _)
RegisterClasses(tools, classes, i) ==
    IF i > Len(classes) THEN tools
    ELSE LET r == _register_tool(tools, classes[i])
         IN  IF r.raised THEN r.tools
             ELSE RegisterClasses(r.tools, classes, i + 1)

\* Registry._walk_package: import each module and register its tool classes;
\* any exception of a module's iteration is caught and only printed.
RECURSIVE _walk_package(_, _, _)
_walk_package(tools, mods, i) ==
    IF i > Len(mods) THEN tools
    ELSE _walk_package(
            IF mods[i].importable
            THEN RegisterClasses(tools, mods[i].classes, 1)
            ELSE tools,
            mods, i + 1)

\* Registry.__init__ / _discover_tools: the mapping after construction.
_discover_tools(mods) == _walk_package(<<>>, mods, 1)

\* path.split('/')
Split(path) == SelectSeq(path, LAMBDA tok : tok # "/")

\* The nested dictionaries of Registry._structure, kept flat: one entry per
\* key of every dictionary, in insertion order.  `at` is the chain of keys
\* leading to the dictionary that holds the key; the key's value is a
\* dictionary (isdict) whose own keys are the entries at `at \o <<key>>`, or
\* a list whose items are `names`.
StructureEntry(at, key, isdict) ==
    [at |-> at, key |-> key, isdict |-> isdict, names |-> <<>>]

\* `key in d` for the dictionary d at `at`.
HasKey(entries, at, key) ==
    \E i \in 1..Len(entries) : entries[i].at = at /\ entries[i].key = key

KeyIndex(entries, at, key) ==
    CHOOSE i \in 1..Len(entries) : entries[i].at = at /\ entries[i].key = key

\* list(d): the keys of the dictionary at `at`, in insertion order.
KeysAt(entries, at) ==
    LET own == SelectSeq(entries, LAMBDA e : e.at = at)
    IN  [i \in 1..Len(own) |-> own[i].key]

\* The inner loop of _build_structure (registry.py:129-132) from part i on.
\* `current` is the dictionary at st.at, or a list when st.islist: a list
\* can be tested with `in`, but indexing it with a str raises TypeError.
RECURSIVE Descend(_, _, _)
Descend(st, parts, i) ==
    IF st.raised \/ i > Len(parts) - 1 THEN st
    ELSE IF st.islist THEN [st EXCEPT !.raised = TRUE]
    ELSE LET created == IF HasKey(st.entries, st.at, parts[i]) THEN st.entries
                        ELSE Append(st.entries,
                                    StructureEntry(st.at, parts[i], TRUE))
             e == created[KeyIndex(created, st.at, parts[i])]
         IN  Descend([entries |-> created, at |-> st.at \o <<parts[i]>>,
                      islist |-> ~e.isdict, raised |-> FALSE], parts, i + 1)

\* registry.py:134-137: append the tool name to current['_tools'].  Indexing
\* a list with '_tools' raises TypeError; a dictionary stored under '_tools'
\* has no append and raises AttributeError.
AddToolName(st, tool_name) ==
    IF st.raised THEN st
    ELSE IF st.islist THEN [st EXCEPT !.raised = TRUE]
    ELSE LET created == IF HasKey(st.entries, st.at, "_tools") THEN st.entries
                        ELSE Append(st.entries,
                                    StructureEntry(st.at, "_tools", FALSE))
             k == KeyIndex(created, st.at, "_tools")
         IN  IF created[k].isdict
             THEN [st EXCEPT !.entries = created, !.raised = TRUE]
             ELSE [st EXCEPT !.entries =
                      [created EXCEPT ![k].names = Append(@, tool_name)]]

\* The loop of _build_structure over the registered paths, from path i on.
RECURSIVE BuildPaths(_, _, _)
BuildPaths(entries, paths, i) ==
    IF i > Len(paths) THEN [raised |-> FALSE, entries |-> entries]
    ELSE LET parts == Split(paths[i])
             st == AddToolName(
                      Descend([entries |-> entries, at |-> <<>>,
                               islist |-> FALSE, raised |-> FALSE], parts, 1),
                      parts[Len(parts)])
         IN  IF st.raised THEN [raised |-> TRUE, entries |-> st.entries]
             ELSE BuildPaths(st.entries, paths, i + 1)

\* Registry._build_structure: the tree of the registered paths, and whether
\* building it raised.
_build_structure(tools) == BuildPaths(<<>>, list_all_tools(tools), 1)

\* The registry before _build_structure has run, and after.
NoStructure == [built |-> FALSE, raised |-> FALSE, entries |-> <<>>]

BuiltStructure(tools) ==
    [built |-> TRUE, raised |-> _build_structure(tools).raised,
     entries |-> _build_structure(tools).entries]

\* Registry.get_structure
get_structure(structure) == structure.entries

\* The last statement of _discover_tools, after the walk: an exception of
\* _build_structure leaves Registry() and initialize_backend().
BuildStructure ==
    /\ walked = Len(modules)
    /\ ~_structure.built
    /\ _structure' = BuiltStructure(_tools)
    /\ UNCHANGED <<_tools, filters, uuid_count, instance_count, ncalls, call,
                   returned, modules, walked, FORCE_LOAD_TABLES, ui, ui_ops, apart>>

\* One iteration of the loop of _walk_package, on the next module of the
\* installation: the try block imports it and registers its classes, the
\* except clause swallows whatever either raised.
WalkModule ==
    /\ walked < Len(modules)
    /\ _tools' = _walk_package(_tools, SubSeq(modules, walked + 1, walked + 1), 1)
    /\ walked' = walked + 1
    /\ UNCHANGED <<filters, uuid_count, instance_count, ncalls, call, returned,
                   modules, FORCE_LOAD_TABLES, ui, ui_ops, _structure, apart>>

\* A rendering that stops after the first path.
ListStrFirstOnly(paths, i) ==
    IF i > Len(paths) \/ i > 1 THEN <<>>
    ELSE <<"'">> \o paths[i] \o <<"'">>

\* str() of a path list, as the f-string of get_tool renders it.
RECURSIVE ListStr(_, _)
ListStr(paths, i) ==
    IF i > Len(paths) THEN <<>>
    ELSE (IF i > 1 THEN <<", ">> ELSE <<>>) \o <<"'">> \o paths[i] \o <<"'">>
         \o ListStr(paths, i + 1)

\* A lookup that substitutes the first registered tool for an unknown path.
get_tool_or_default(tools, path, id) ==
    [raised |-> None,
     tool |-> Some([cls |-> IF HasPath(tools, path) THEN ClassAt(tools, path)
                            ELSE tools[1].cls,
                    id |-> id])]

\* Registry.get_tool: raises ToolNotFoundError for an unknown path, else
\* instantiates the registered class; `id` is the new object's identity.
get_tool(tools, path, id) ==
    IF ~HasPath(tools, path)
    THEN [raised |-> Some(PlainException("ToolNotFoundError",
                        <<"Tool not found: ">> \o path
                        \o <<". Available tools: ", "[">>
                        \o ListStr(list_all_tools(tools), 1) \o <<"]">>)),
          tool |-> None]
    ELSE [raised |-> None,
          tool |-> Some([cls |-> ClassAt(tools, path), id |-> id])]

(***************************************************************************)
(* backend/core/model_loader.py                                            *)
(***************************************************************************)
\* Total number of ModelLoader.get() calls in a behaviour.
MaxGets == 3

\* The keys resources are cached under.
LoaderKeys == {"model_a", "model_b"}

\* ModelLoader.__init__: self._cache = {} (None: the key is absent).
NewCache == [k \in LoaderKeys |-> None]

IdleGetter == [pc |-> "idle", key |-> "model_a", made |-> None]

\* The get() calls begun so far.
GetsBegun ==
    LET total[k \in SUBSET LoaderKeys] ==
            IF k = {} THEN 0
            ELSE LET x == CHOOSE x \in k : TRUE
                 IN  factory_calls[x].gets + total[k \ {x}]
    IN  total[LoaderKeys]

\* What the model loader's steps leave alone.
NotLoader ==
    <<_tools, filters, uuid_count, instance_count, ncalls, call, returned,
      modules, walked, FORCE_LOAD_TABLES, ui, ui_ops, _structure, content>>

\* ModelLoader.get, line 46: `if key not in self._cache`.  Nothing locks the
\* cache, so the test and the assignment it guards are separate steps.
LoaderGet(t, key) ==
    /\ getter[t].pc = "idle"
    /\ GetsBegun < MaxGets
    /\ getter' = [getter EXCEPT ![t] =
                     [pc |-> IF _cache[key] = None THEN "factory" ELSE "return",
                      key |-> key, made |-> None]]
    /\ factory_calls' = [factory_calls EXCEPT ![key].gets = @ + 1]
    /\ UNCHANGED <<_cache, received>>
    /\ UNCHANGED NotLoader

\* Line 47, right-hand side: factory() is called and makes a new instance.
LoaderFactory(t) ==
    /\ getter[t].pc = "factory"
    /\ factory_calls' = [factory_calls EXCEPT ![getter[t].key].invoked = @ + 1]
    /\ getter' = [getter EXCEPT ![t].pc = "store",
                                ![t].made = Some(factory_calls[getter[t].key].invoked + 1)]
    /\ UNCHANGED <<_cache, received>>
    /\ UNCHANGED NotLoader

\* Line 47, assignment: self._cache[key] = the instance just made.
LoaderStore(t) ==
    /\ getter[t].pc = "store"
    /\ _cache' = [_cache EXCEPT ![getter[t].key] = getter[t].made]
    /\ getter' = [getter EXCEPT ![t].pc = "return"]
    /\ UNCHANGED <<factory_calls, received>>
    /\ UNCHANGED NotLoader

\* Line 48: return self._cache[key], whatever the cache holds by now.
LoaderReturn(t) ==
    /\ getter[t].pc = "return"
    /\ received' = received \cup
          {[key |-> getter[t].key, instance |-> _cache[getter[t].key][1]]}
    /\ getter' = [getter EXCEPT ![t] = IdleGetter]
    /\ UNCHANGED <<_cache, factory_calls>>
    /\ UNCHANGED NotLoader

\* get() calls of the host's threads interleaved step by step.
NextLoader ==
    \E t \in Threads :
        \/ \E key \in LoaderKeys : LoaderGet(t, key)
        \/ LoaderFactory(t)
        \/ LoaderStore(t)
        \/ LoaderReturn(t)

(***************************************************************************)
(* backend/adapters/logger.py                                              *)
(***************************************************************************)
\* The context dictionary get_logger builds: a key is present (not None)
\* only when its argument is truthy.
LoggerContext(tool_path, user, request_id) ==
    [tool_path  |-> IF tool_path # EmptyStr THEN Some(tool_path) ELSE None,
     user       |-> IF user # EmptyStr THEN Some(user) ELSE None,
     request_id |-> IF request_id # EmptyStr THEN Some(request_id) ELSE None]

\* get_logger: the filters of logging.getLogger(__name__) afterwards.  Every
\* call returns that same logger; a non-empty context adds one more
\* ContextFilter to it, and no filter is ever removed.
get_logger(fs, tool_path, user, request_id) ==
    LET context == LoggerContext(tool_path, user, request_id)
    IN  IF \E k \in DOMAIN context : context[k] # None
        THEN Append(fs, context)
        ELSE fs

\* A new LogRecord has none of the three context attributes.
NoAttrs == [tool_path |-> None, user |-> None, request_id |-> None]

\* ContextFilter.filter: setattr(record, key, value) for each context item.
ContextFilter(context, record) ==
    [k \in DOMAIN record |->
        IF context[k] # None THEN context[k] ELSE record[k]]

\* logging.Filterer.filter: the logger's filters run in the order added.
RECURSIVE ApplyFilters(_, _, _)
ApplyFilters(fs, i, record) ==
    IF i > Len(fs) THEN record
    ELSE ApplyFilters(fs, i + 1, ContextFilter(fs[i], record))

\* One logging call on the shared logger: the line the formatters write,
\* with the context attributes the record carries after the filters.
\* `event` names the call site's message.
LogLine(fs, level, event) ==
    LET record == ApplyFilters(fs, 1, NoAttrs)
    IN  [event |-> event, level |-> level, tool_path |-> record.tool_path,
         user |-> record.user, request_id |-> record.request_id]

(***************************************************************************)
(* Tool runs                                                               *)
(***************************************************************************)
\* What tool.run(context, **params) did: the value it returned or the
\* exception it raised, and the number of lines it wrote to context.logger.
Returned(data, nlines) ==
    [kind |-> "return", data |-> data, exc |-> None, nlines |-> nlines]

Raised(exc, nlines) ==
    [kind |-> "raise", data |-> None, exc |-> Some(exc), nlines |-> nlines]

NoOutcome == [kind |-> "none", data |-> None, exc |-> None, nlines |-> 0]

\* The outcomes of an arbitrary BaseTool.run (base_tool.py:62-78): a return
\* value (None included), a ToolExecutionError of any class of the hierarchy
\* with or without a user_message, and any other Exception, among them the
\* TypeError of a call whose params do not match run's signature and a
\* ToolNotFoundError raised inside run.
AnyToolOutcomes ==
    { Returned(None, 1), Returned(Some(<<"payload">>), 0),
      Returned(Some(<<"payload">>), 1) }
    \cup { Raised(ToolExecutionError(c, m[1], m[2]), 1) :
             c \in {"ToolExecutionError", "ParameterValidationError",
                    "DataAccessError", "BusinessLogicError", "CustomToolError"},
             m \in { <<EmptyStr, None>>,
                     <<(<<"Invalid desk">>), None>>,
                     <<(<<"Invalid desk">>), Some(<<"Please select a valid desk">>)>> } }
    \cup { Raised(PlainException("ToolNotFoundError", <<"Tool not found: inner">>), 1),
           Raised(PlainException("ValueError", <<"secret internal text">>), 1),
           Raised(PlainException("ValueError", EmptyStr), 1),
           Raised(PlainException("TypeError",
                    <<"run() got an unexpected keyword argument">>), 0) }

\* One outcome of each kind: a return, a business error, another exception.
FewToolOutcomes ==
    { Returned(Some(<<"payload">>), 1),
      Raised(ToolExecutionError("ParameterValidationError", <<"Invalid desk">>,
                                Some(<<"Please select a valid desk">>)), 1),
      Raised(PlainException("ValueError", <<"secret internal text">>), 0) }

(***************************************************************************)
(* Calling run(context, **params)                                          *)
(***************************************************************************)
\* The keyword parameters run declares after context, and their defaults
\* (timeline_tool.py:29, force_load_tool.py:29-36).
Signature(cls) ==
    CASE cls \in {"TimelineTool", "TimelineToolV2"} ->
            [names |-> {"desk", "date"}, defaults |-> [n \in {} |-> PyNone]]
      [] cls = "ForceLoadTool" ->
            [names |-> {"table_name", "action", "config", "dry_run"},
             defaults |-> [action |-> PyStr(<<"save">>), config |-> PyNone,
                           dry_run |-> PyBool(TRUE)]]

\* Python's binding of **params to the signature: the arguments run receives,
\* or the TypeError of a keyword run does not declare or of a declared
\* parameter without default that params leaves out.
BindArgs(sig, params) ==
    IF \E k \in DOMAIN params : k \notin sig.names
    THEN [raised |-> Some(PlainException("TypeError",
                        <<"run() got an unexpected keyword argument">>)),
          args |-> None]
    ELSE IF \E n \in sig.names : n \notin DOMAIN params /\ n \notin DOMAIN sig.defaults
    THEN [raised |-> Some(PlainException("TypeError",
                        <<"run() missing required positional argument">>)),
          args |-> None]
    ELSE [raised |-> None,
          args |-> Some([n \in sig.names |->
                            IF n \in DOMAIN params THEN params[n]
                            ELSE sig.defaults[n]])]

(***************************************************************************)
(* datetime                                                                *)
(***************************************************************************)
\* The four-digit year fields that occur, with their values (0: not a year).
YearNum(tok) ==
    CASE tok = "2024" -> 2024
      [] tok = "2025" -> 2025
      [] OTHER -> 0

\* The two-digit fields "01" .. "31"; "00" is written for zero.
TwoDigit ==
    << "01", "02", "03", "04", "05", "06", "07", "08", "09", "10",
       "11", "12", "13", "14", "15", "16", "17", "18", "19", "20",
       "21", "22", "23", "24", "25", "26", "27", "28", "29", "30", "31" >>

\* int() of a two-digit field (0: not one of them).
Num2(tok) ==
    IF \E i \in 1..Len(TwoDigit) : TwoDigit[i] = tok
    THEN CHOOSE i \in 1..Len(TwoDigit) : TwoDigit[i] = tok
    ELSE 0

Str2(n) == IF n = 0 THEN "00" ELSE TwoDigit[n]

YearStr(y) == CHOOSE tok \in {"2024", "2025"} : YearNum(tok) = y

IsLeap(y) == (y % 4 = 0 /\ y % 100 # 0) \/ y % 400 = 0

DaysInMonth(y, m) ==
    IF m = 2 THEN (IF IsLeap(y) THEN 29 ELSE 28)
    ELSE IF m \in {4, 6, 9, 11} THEN 30 ELSE 31

\* datetime.fromisoformat(date) for the date strings considered (YYYY-MM-DD):
\* the datetime at midnight, a ValueError for a string that is not an ISO
\* date, a TypeError for an argument that is not a str.
fromisoformat(date) ==
    IF date.type # "str"
    THEN [raised |-> Some(PlainException("TypeError",
                        <<"fromisoformat: argument must be str">>)),
          value |-> None]
    ELSE LET f == date.str
             shaped == Len(f) = 5 /\ f[2] = "-" /\ f[4] = "-"
                         /\ YearNum(f[1]) > 0 /\ Num2(f[3]) > 0 /\ Num2(f[5]) > 0
         IN  IF ~shaped
             THEN [raised |-> Some(PlainException("ValueError",
                                <<"Invalid isoformat string: '">> \o f \o <<"'">>)),
                   value |-> None]
             ELSE IF Num2(f[3]) > 12
             THEN [raised |-> Some(PlainException("ValueError",
                                <<"month must be in 1..12">>)),
                   value |-> None]
             ELSE IF Num2(f[5]) > DaysInMonth(YearNum(f[1]), Num2(f[3]))
             THEN [raised |-> Some(PlainException("ValueError",
                                <<"day is out of range for month">>)),
                   value |-> None]
             ELSE [raised |-> None,
                   value |-> Some([year |-> YearNum(f[1]), month |-> Num2(f[3]),
                                   day |-> Num2(f[5]), hour |-> 0])]

\* dt + timedelta(hours=h), for h below 24.
AddHours(dt, h) ==
    IF dt.hour + h < 24 THEN [dt EXCEPT !.hour = dt.hour + h]
    ELSE IF dt.day < DaysInMonth(dt.year, dt.month)
    THEN [dt EXCEPT !.hour = dt.hour + h - 24, !.day = dt.day + 1]
    ELSE IF dt.month < 12
    THEN [dt EXCEPT !.hour = dt.hour + h - 24, !.day = 1, !.month = dt.month + 1]
    ELSE [year |-> dt.year + 1, month |-> 1, day |-> 1, hour |-> dt.hour + h - 24]

\* The order of datetimes.
Before(a, b) ==
    \/ a.year < b.year
    \/ a.year = b.year /\ a.month < b.month
    \/ a.year = b.year /\ a.month = b.month /\ a.day < b.day
    \/ a.year = b.year /\ a.month = b.month /\ a.day = b.day /\ a.hour < b.hour

\* dt.isoformat()
isoformat(dt) ==
    << YearStr(dt.year), "-", Str2(dt.month), "-", Str2(dt.day),
       "T", Str2(dt.hour), ":00:00" >>

(***************************************************************************)
(* backend/models/ingestor_timeline.py and the timeline tool                *)
(***************************************************************************)
\* config/settings.py: RAD_TIMELINE_DESKS
RAD_TIMELINE_DESKS ==
    << <<"Options">>, <<"Exotics">>, <<"Inflation">>, <<"LDFX">>, <<"FXG">> >>

\* `desk in RAD_TIMELINE_DESKS`
IsDesk(desk) ==
    /\ desk.type = "str"
    /\ \E i \in 1..Len(RAD_TIMELINE_DESKS) : RAD_TIMELINE_DESKS[i] = desk.str

\* IngestorTimelineModel._get_mock_data: num_records rows, one per hour from
\* `date` on, the overwrite flag being bool(i % 2) for i = 0, 1, ...
num_records == 10

\* Mock data whose overwrite flags start with true.
_get_mock_data_true_first(desk, date) ==
    [i \in 1..num_records |->
        [TS |-> AddHours(date, i - 1),
         COB |-> [year |-> date.year, month |-> date.month, day |-> date.day],
         data |-> <<"/NLRAD/">> \o desk.str \o <<"/path_", ToString(i - 1)>>,
         overwrite |-> (i % 2) # 0]]

_get_mock_data(desk, date) ==
    [i \in 1..num_records |->
        [TS |-> AddHours(date, i - 1),
         COB |-> [year |-> date.year, month |-> date.month, day |-> date.day],
         data |-> <<"/NLRAD/">> \o desk.str \o <<"/path_", ToString(i - 1)>>,
         overwrite |-> ((i - 1) % 2) # 0]]

\* df['TS'].min() and df['TS'].max()
MinTS(df) ==
    df[CHOOSE i \in 1..Len(df) : \A j \in 1..Len(df) : ~Before(df[j].TS, df[i].TS)].TS

MaxTS(df) ==
    df[CHOOSE i \in 1..Len(df) : \A j \in 1..Len(df) : ~Before(df[i].TS, df[j].TS)].TS

\* IngestorTimelineModel.process_timeline_data
process_timeline_data(df) ==
    [records |-> df,
     summary |->
        [total_records |-> Len(df),
         overwrite_count |-> Cardinality({i \in 1..Len(df) : df[i].overwrite}),
         date_range |->
            [earliest |-> IF Len(df) > 0 THEN Some(isoformat(MinTS(df))) ELSE None,
             latest |-> IF Len(df) > 0 THEN Some(isoformat(MaxTS(df))) ELSE None]],
     dataframe |-> df]

\* A desk check placed after the date parsing.
TimelineRunDateFirst(args) ==
    LET parsed == fromisoformat(args.date)
    IN  IF parsed.raised # None
        THEN Raised(IF parsed.raised[1].cls = "ValueError"
                    THEN ToolExecutionError("ParameterValidationError",
                            <<"Invalid date format: ">> \o parsed.raised[1].message,
                            Some(<<"Please provide date in YYYY-MM-DD format">>))
                    ELSE parsed.raised[1], 1)
        ELSE IF ~IsDesk(args.desk)
        THEN Raised(ToolExecutionError("ParameterValidationError",
                        <<"Invalid desk '">> \o args.desk.str,
                        Some(<<"Please select a valid desk">>)), 1)
        ELSE Returned(Some(process_timeline_data(
                                _get_mock_data(args.desk, parsed.value[1]))), 5)

\* TimelineTool.run(context, desk, date): the desk is checked first, then
\* the date is parsed, only a ValueError of the parsing being turned into a
\* ParameterValidationError; then the model is queried.
TimelineRun(args) ==
    IF ~IsDesk(args.desk)
    THEN Raised(ToolExecutionError("ParameterValidationError",
                    <<"Invalid desk '">> \o args.desk.str
                        \o <<"'. Must be one of: ", "[">>
                        \o ListStr(RAD_TIMELINE_DESKS, 1) \o <<"]">>,
                    Some(<<"Please select a valid desk: ">>
                            \o Join(RAD_TIMELINE_DESKS, 1))), 1)
    ELSE LET parsed == fromisoformat(args.date)
         IN  IF parsed.raised # None
             THEN Raised(IF parsed.raised[1].cls = "ValueError"
                         THEN ToolExecutionError("ParameterValidationError",
                                <<"Invalid date format: ">> \o parsed.raised[1].message,
                                Some(<<"Please provide date in YYYY-MM-DD format">>))
                         ELSE parsed.raised[1], 1)
             ELSE Returned(Some(process_timeline_data(
                                    _get_mock_data(args.desk, parsed.value[1]))), 5)

(***************************************************************************)
(* backend/models/ingestor_force.py and the force-load tool                 *)
(***************************************************************************)
\* A config row: a dict over configName, key and group; a field is None when
\* the dict has no such key.
Row(configName, key, group) ==
    [configName |-> configName, key |-> key, group |-> group]

FullRow(configName, key, group) == Row(Some(configName), Some(key), Some(group))

required_keys == <<"configName", "key", "group">>

\* The module-level FORCE_LOAD_TABLES as the module defines it: each table's
\* 'data' list, and the tables in the dict's order.
DefaultTables ==
    (<<"Inflation Env">> :>
        << FullRow(<<"Config1">>, <<"inflation.rate">>, <<"ENV">>),
           FullRow(<<"Config2">>, <<"inflation.curve">>, <<"ENV">>),
           FullRow(<<"Config3">>, <<"inflation.spread">>, <<"ENV">>) >>)
    @@ (<<"Options ScenarioGamma">> :>
        << FullRow(<<"Gamma1">>, <<"gamma.scenario.base">>, <<"OPTS">>),
           FullRow(<<"Gamma2">>, <<"gamma.scenario.stress">>, <<"OPTS">>) >>)

TableNames == << <<"Inflation Env">>, <<"Options ScenarioGamma">> >>

TableDescription(table_name) ==
    IF table_name = <<"Inflation Env">>
    THEN <<"Inflation environment configuration">>
    ELSE <<"Options scenario gamma configuration">>

\* `table_name in FORCE_LOAD_TABLES`
IsTable(table_name) ==
    table_name.type = "str" /\ table_name.str \in DOMAIN FORCE_LOAD_TABLES

\* IngestorForceModel.get_default_config: the table's 'data' list itself.
get_default_config(table_name) == FORCE_LOAD_TABLES[table_name.str]

\* IngestorForceModel.get_table_schema: the table's dict.
get_table_schema(table_name) ==
    [description |-> TableDescription(table_name.str),
     data |-> FORCE_LOAD_TABLES[table_name.str]]

\* `not row.get(k)`: the key is absent or its value is empty.
IsBlank(row, k) == ~Truthy(row[k])

\* validate_config, the loop from row i on: the error of the first row that
\* lacks a required key or is filled in part, None when there is none.  The
\* technical message counts rows from 0, the user message from 1.
RECURSIVE ValidateRows(_, _)
ValidateRows(rows, i) ==
    IF i > Len(rows) THEN None
    ELSE IF \E k \in DOMAIN rows[i] : rows[i][k] = None
    THEN Some(ToolExecutionError("ParameterValidationError",
                <<"Row ", ToString(i - 1), " missing required keys">>,
                Some(<<"Row ", ToString(i), " is missing required fields">>)))
    ELSE IF (\E k \in DOMAIN rows[i] : IsBlank(rows[i], k))
            /\ ~(\A k \in DOMAIN rows[i] : IsBlank(rows[i], k))
    THEN Some(ToolExecutionError("ParameterValidationError",
                <<"Row ", ToString(i - 1), " has incomplete data">>,
                Some(<<"Row ", ToString(i),
                       " must have all fields filled or be empty">>)))
    ELSE ValidateRows(rows, i + 1)

\* A validation that looks at the first row only.
validate_first_row_only(config_data) ==
    IF ~PyTruth(config_data)
    THEN Some(ToolExecutionError("ParameterValidationError",
                <<"Configuration data cannot be empty">>,
                Some(<<"Please provide at least one configuration row">>)))
    ELSE ValidateRows(SubSeq(config_data.items, 1, 1), 1)

\* A validation that lets an empty list through.
validate_rows_only(config_data) == ValidateRows(config_data.items, 1)

\* IngestorForceModel.validate_config: the error it raises, or None.
validate_config(config_data) ==
    IF ~PyTruth(config_data)
    THEN Some(ToolExecutionError("ParameterValidationError",
                <<"Configuration data cannot be empty">>,
                Some(<<"Please provide at least one configuration row">>)))
    ELSE ValidateRows(config_data.items, 1)

\* The values random.randint may return for one record; the five random
\* fields of a record are drawn together.
Draws == {1, 2}

\* row.get(k, '')
GetOrEmpty(row, k) == IF row[k] = None THEN EmptyStr ELSE row[k][1]

\* The rows execute_force_load keeps: those with a non-blank field.
valid_rows(rows) ==
    SelectSeq(rows, LAMBDA row : \E k \in DOMAIN row : ~IsBlank(row, k))

\* An execute_force_load that keeps every row.
execute_force_load_all_rows(table_name, config_data, dry_run, draw) ==
    [success |-> TRUE,
     message |-> <<"Successfully completed ",
                   IF PyTruth(dry_run) THEN "dry run" ELSE "force load",
                   " for ", ToString(Len(config_data.items)), " configurations to ">>
                 \o table_name.str,
     rows_processed |-> Len(config_data.items),
     table_name |-> table_name.str,
     records |-> [i \in 1..Len(config_data.items) |->
                    [configName |-> GetOrEmpty(config_data.items[i], "configName"),
                     key |-> GetOrEmpty(config_data.items[i], "key"),
                     group |-> GetOrEmpty(config_data.items[i], "group"),
                     LoadID |-> IF i \in DOMAIN draw THEN draw[i] ELSE 1]]]

\* IngestorForceModel.execute_force_load; draw[i] is what random gave for
\* the i-th record.
execute_force_load(table_name, config_data, dry_run, draw) ==
    LET rows == valid_rows(config_data.items)
    IN  [success |-> TRUE,
         message |-> <<"Successfully completed ",
                       IF PyTruth(dry_run) THEN "dry run" ELSE "force load",
                       " for ", ToString(Len(rows)), " configurations to ">>
                     \o table_name.str,
         rows_processed |-> Len(rows),
         table_name |-> table_name.str,
         records |-> [i \in 1..Len(rows) |->
                        [configName |-> GetOrEmpty(rows[i], "configName"),
                         key |-> GetOrEmpty(rows[i], "key"),
                         group |-> GetOrEmpty(rows[i], "group"),
                         LoadID |-> draw[i]]]]

\* A load branch in which a dry run skips the validation.
LoadBranchDryUnvalidated(action, table_name, config, dry_run) ==
    IF config.type = "NoneType"
    THEN { Raised(ToolExecutionError("ParameterValidationError",
                    <<"config parameter is required for '", action, "' action">>,
                    Some(<<"Configuration data is required">>)), 1) }
    ELSE IF ~PyTruth(dry_run) /\ validate_config(config) # None
    THEN { Raised(validate_config(config)[1], 2) }
    ELSE { Returned(Some(execute_force_load(table_name, config, dry_run, draw)), 5) :
             draw \in [1..Len(valid_rows(config.items)) -> Draws] }

\* The force_load and save branches of ForceLoadTool.run (lines 78-100 and
\* 104-125): config is required, validated, then loaded with `dry_run`.
LoadBranch(action, table_name, config, dry_run) ==
    IF config.type = "NoneType"
    THEN { Raised(ToolExecutionError("ParameterValidationError",
                    <<"config parameter is required for '", action, "' action">>,
                    Some(<<"Configuration data is required">>)), 1) }
    ELSE IF validate_config(config) # None
    THEN { Raised(validate_config(config)[1], 2) }
    ELSE { Returned(Some(execute_force_load(table_name, config, dry_run, draw)), 5) :
             draw \in [1..Len(valid_rows(config.items)) -> Draws] }

\* The ParameterValidationError of ForceLoadTool.run for an unknown table
\* (lines 57-61): str(list) of the table names in the technical message,
\* ', '.join of them in the user message.
InvalidTable(table_name) ==
    ToolExecutionError("ParameterValidationError",
        <<"Invalid table '">> \o table_name.str
            \o <<"'. Must be one of: ", "[">> \o ListStr(TableNames, 1) \o <<"]">>,
        Some(<<"Please select a valid table: ">> \o Join(TableNames, 1)))

\* The ParameterValidationError for an action that is none of the three
\* (lines 127-131).
InvalidAction(action) ==
    ToolExecutionError("ParameterValidationError",
        <<"Invalid action '">> \o action.str
            \o <<"'. Must be 'get_default', 'force_load', or 'save'">>,
        Some(<<"Invalid action specified">>))

\* A run that looks at the action and the config before the table.
ForceLoadRunTableLast(args) ==
    IF args.action \notin { PyStr(<<"get_default">>), PyStr(<<"force_load">>),
                            PyStr(<<"save">>) }
    THEN { Raised(InvalidAction(args.action), 1) }
    ELSE IF args.action # PyStr(<<"get_default">>) /\ args.config.type = "NoneType"
    THEN LoadBranch(args.action.str[1], args.table_name, args.config, args.dry_run)
    ELSE IF ~IsTable(args.table_name)
    THEN { Raised(InvalidTable(args.table_name), 1) }
    ELSE IF args.action = PyStr(<<"get_default">>)
    THEN { Returned(Some([config |-> get_default_config(args.table_name),
                          schema |-> get_table_schema(args.table_name),
                          table_name |-> args.table_name.str]), 2) }
    ELSE LoadBranch(args.action.str[1], args.table_name, args.config,
                    IF args.action = PyStr(<<"save">>) THEN PyBool(FALSE)
                    ELSE args.dry_run)

\* ForceLoadTool.run(context, table_name, action='save', config=None,
\* dry_run=True): the outcomes, one per result of the random draws.
ForceLoadRun(args) ==
    IF ~IsTable(args.table_name)
    THEN { Raised(InvalidTable(args.table_name), 1) }
    ELSE IF args.action = PyStr(<<"get_default">>)
    THEN { Returned(Some([config |-> get_default_config(args.table_name),
                          schema |-> get_table_schema(args.table_name),
                          table_name |-> args.table_name.str]), 2) }
    ELSE IF args.action = PyStr(<<"force_load">>)
    THEN LoadBranch("force_load", args.table_name, args.config, args.dry_run)
    ELSE IF args.action = PyStr(<<"save">>)
    THEN LoadBranch("save", args.table_name, args.config, PyBool(FALSE))
    ELSE { Raised(InvalidAction(args.action), 1) }

(***************************************************************************)
(* Tool runs, by class                                                     *)
(***************************************************************************)
\* The possible outcomes of tool.run(context, **params) for a tool of class
\* cls; `any` is the set of outcomes considered for an arbitrary tool.  For
\* the repository's tools the call first binds params to run's signature.
RunOutcomes(cls, context, params, any) ==
    IF cls \in {"TimelineTool", "TimelineToolV2", "ForceLoadTool"}
    THEN LET bound == BindArgs(Signature(cls), params)
         IN  IF bound.raised # None THEN { Raised(bound.raised[1], 0) }
             ELSE IF cls = "ForceLoadTool" THEN ForceLoadRun(bound.args[1])
             ELSE { TimelineRun(bound.args[1]) }
    ELSE any

(***************************************************************************)
(* backend/core/executor.py                                                *)
(***************************************************************************)
\* str(uuid.uuid4()): the n-th value drawn.  Distinct draws are taken to be
\* distinct values (random 122-bit identifiers).
uuid4(n) == <<"uuid4-" \o ToString(n)>>

\* An execute without its last clause, `except Exception`.
ExceptClauseNoCatchAll(exc) ==
    IF IsSubclass(exc.cls, "ToolNotFoundError") THEN "ToolNotFoundError"
    ELSE IF IsSubclass(exc.cls, "ToolExecutionError") THEN "ToolExecutionError"
    ELSE "uncaught"

\* Which except clause of execute catches the exception: the clauses are
\* tried in source order and the first whose class matches wins.
ExceptClause(exc) ==
    IF IsSubclass(exc.cls, "ToolNotFoundError") THEN "ToolNotFoundError"
    ELSE IF IsSubclass(exc.cls, "ToolExecutionError") THEN "ToolExecutionError"
    ELSE IF IsSubclass(exc.cls, "Exception") THEN "Exception"
    ELSE "uncaught"

\* The branch of execute an outcome of the try block ends in.
Branch(outcome) ==
    IF outcome.kind = "return" THEN "success" ELSE ExceptClause(outcome.exc[1])

\* traceback.format_exc() inside the except clause.
format_exc(exc) ==
    <<"Traceback (most recent call last):", exc.cls, ": ">> \o exc.message

\* The terminal logging call of each branch.
TerminalLine(fs, outcome) ==
    CASE Branch(outcome) = "success" -> LogLine(fs, "INFO", "completed")
      [] Branch(outcome) = "ToolNotFoundError" -> LogLine(fs, "ERROR", "not_found")
      [] Branch(outcome) = "ToolExecutionError" -> LogLine(fs, "WARNING", "failed")
      [] Branch(outcome) = "Exception" -> LogLine(fs, "ERROR", "unexpected")

\* execute, lines 104-109: the Result of the `except ToolNotFoundError` clause.
ToolNotFoundResult(exc, request_id, tool_path) ==
    error_result(exc.message, request_id, <<"ToolNotFound">>,
                 Some(<<"Tool '">> \o tool_path \o <<"' does not exist">>), None)

\* A business branch that drops the error's user_message.
BusinessResultMessageOnly(exc, request_id) ==
    error_result(exc.message, request_id, <<exc.cls>>, None, None)

\* execute, lines 114-119: the Result of the `except ToolExecutionError`
\* clause; error_type is e.__class__.__name__.
BusinessResult(exc, request_id) ==
    error_result(exc.message, request_id, <<exc.cls>>, exc.user_message, None)

\* execute, lines 128-134: the Result of the `except Exception` clause.
UnexpectedResult(exc, request_id) ==
    error_result(exc.message, request_id, <<"UnexpectedError">>,
                 Some(<<"An unexpected error occurred. Please contact support.">>),
                 Some(format_exc(exc)))

\* The Result each branch returns.
BranchResult(outcome, request_id, tool_path) ==
    CASE Branch(outcome) = "success" ->
            success_result(outcome.data, request_id)
      [] Branch(outcome) = "ToolNotFoundError" ->
            ToolNotFoundResult(outcome.exc[1], request_id, tool_path)
      [] Branch(outcome) = "ToolExecutionError" ->
            BusinessResult(outcome.exc[1], request_id)
      [] Branch(outcome) = "Exception" ->
            UnexpectedResult(outcome.exc[1], request_id)

\* The callers' inputs.
Users == { EmptyStr, <<"alice">> }

CallPaths == { EmptyStr, full_path("AnyTool") }

CallParams == { [table_name |-> PyStr(<<"Inflation Env">>)] }

\* The frame of a thread that has not called execute yet.
IdleFrame ==
    [pc |-> "idle", call |-> 0, user |-> EmptyStr, tool_path |-> EmptyStr,
     params |-> None, request_id |-> EmptyStr, context |-> None, tool |-> None,
     run_invoked |-> FALSE, outcome |-> NoOutcome, result |-> None,
     lines |-> <<>>]

\* A request id kept on the shared executor instead of in the frame.
LastRequestId(t) == uuid4(uuid_count)

\* The local variable request_id of t's execute frame.
RequestIdOf(t) == call[t].request_id

\* execute, lines 58-76: request id, logger and context, for a call whose
\* arguments are drawn from the given sets.
BeginWith(t, users, paths, params_set) ==
    /\ call[t].pc \in {"idle", "done", "raised"}
    /\ ncalls < MaxCalls
    /\ \E user \in users, tool_path \in paths, params \in params_set :
          LET request_id == uuid4(uuid_count + 1)
          IN  /\ uuid_count' = uuid_count + 1
              /\ ncalls' = ncalls + 1
              /\ filters' = get_logger(filters, tool_path, user, request_id)
              /\ call' = [call EXCEPT ![t] =
                    [IdleFrame EXCEPT
                        !.pc = "started", !.call = ncalls + 1, !.user = user,
                        !.tool_path = tool_path, !.params = Some(params),
                        !.request_id = request_id,
                        !.context = Some(ExecutionContext(request_id, user,
                                                          tool_path, params))]]
    /\ UNCHANGED <<elsewhere, _tools, instance_count, returned>>

Begin(t) == BeginWith(t, Users, CallPaths, CallParams)

\* A start that writes no line.
LogStartedSilent(t) ==
    /\ call[t].pc = "started"
    /\ call' = [call EXCEPT ![t].pc = "lookup"]
    /\ UNCHANGED <<elsewhere, _tools, filters, uuid_count, instance_count, ncalls, returned>>

\* execute, lines 79-82: logger.info("Tool execution started ...").
LogStarted(t) ==
    /\ call[t].pc = "started"
    /\ call' = [call EXCEPT ![t].pc = "lookup",
                            ![t].lines = Append(@, LogLine(filters, "INFO", "started"))]
    /\ UNCHANGED <<elsewhere, _tools, filters, uuid_count, instance_count, ncalls, returned>>

\* execute, line 86: tool = self.registry.get_tool(tool_path).
GetTool(t) ==
    /\ call[t].pc = "lookup"
    /\ LET r == get_tool(_tools, call[t].tool_path, instance_count + 1)
       IN  IF r.raised # None
           THEN /\ call' = [call EXCEPT ![t].pc = "outcome",
                                        ![t].outcome = Raised(r.raised[1], 0)]
                /\ UNCHANGED instance_count
           ELSE /\ call' = [call EXCEPT ![t].pc = "run", ![t].tool = r.tool]
                /\ instance_count' = instance_count + 1
    /\ UNCHANGED <<elsewhere, _tools, filters, uuid_count, ncalls, returned>>

\* execute, lines 89-91: data = tool.run(context, **params); the tool's own
\* lines go through context.logger, the shared logger.
RunTool(t, any) ==
    /\ call[t].pc = "run"
    /\ \E o \in RunOutcomes(call[t].tool[1].cls, call[t].context[1],
                              call[t].params[1], any) :
          call' = [call EXCEPT
                      ![t].pc = "outcome", ![t].run_invoked = TRUE,
                      ![t].outcome = o,
                      ![t].lines = @ \o [i \in 1..o.nlines |->
                                            LogLine(filters, "INFO", "tool")]]
    /\ UNCHANGED <<elsewhere, _tools, filters, uuid_count, instance_count, ncalls, returned>>

\* execute, lines 94-97, 103, 113, 124-127: the branch's logging call; an
\* exception no clause catches leaves execute.
LogTerminal(t) ==
    /\ call[t].pc = "outcome"
    /\ call' = IF Branch(call[t].outcome) = "uncaught"
               THEN [call EXCEPT ![t].pc = "raised"]
               ELSE [call EXCEPT ![t].pc = "return",
                                 ![t].lines = Append(@, TerminalLine(filters,
                                                                     call[t].outcome))]
    /\ UNCHANGED <<elsewhere, _tools, filters, uuid_count, instance_count, ncalls, returned>>

\* execute, lines 99, 104-109, 114-119, 128-134: return the Result.
Return(t) ==
    /\ call[t].pc = "return"
    /\ LET result == BranchResult(call[t].outcome, RequestIdOf(t), call[t].tool_path)
       IN  /\ call' = [call EXCEPT ![t].pc = "done", ![t].result = Some(result)]
           /\ returned' = returned \cup
                 {[call |-> call[t].call, request_id |-> result.request_id]}
    /\ UNCHANGED <<elsewhere, _tools, filters, uuid_count, instance_count, ncalls>>

(***************************************************************************)
(* ui/tools/RAD/ingestor/force_load_ui.py                                  *)
(***************************************************************************)
\* Number of ForceLoadUI callbacks in a behaviour.
MaxUiOps == 4

\* The texts a user types into a cell.
CellValues == { EmptyStr, <<"Edited">> }

\* ForceLoadUI.__init__: current_data is a list object; it is either the
\* page's own list, which is always empty (None), or the very 'data' list of
\* a table of FORCE_LOAD_TABLES (Some(table)), which _on_load_table stores
\* without copying.  `rendered` is the number of row widgets on display,
\* `output` what the output area shows.
NewForceLoadUI ==
    [tool_path |-> full_path("ForceLoadTool"), table |-> TableNames[1],
     current_data |-> None, current_table_name |-> None, dry_run |-> TRUE,
     rendered |-> 0, enabled |-> FALSE, output |-> "empty"]

\* The list self.current_data refers to.
CurrentData ==
    IF ui.current_data = None THEN <<>> ELSE FORCE_LOAD_TABLES[ui.current_data[1]]

\* _render_table: nothing is redrawn for an empty list.
Rendered(rows) == IF rows = <<>> THEN ui.rendered ELSE Len(rows)

\* executor.execute(user='dashboard_user', tool_path=self.tool_path, params)
\* run to its end inside a callback: the outcomes of the try block.
UiOutcomes(params) ==
    LET looked == get_tool(_tools, ui.tool_path, instance_count + 1)
        request_id == uuid4(uuid_count + 1)
    IN  IF looked.raised # None THEN { Raised(looked.raised[1], 0) }
        ELSE RunOutcomes(looked.tool[1].cls,
                         ExecutionContext(request_id, <<"dashboard_user">>,
                                          ui.tool_path, params),
                         params, AnyToolOutcomes)

\* The Result of that call.
UiResult(o) == BranchResult(o, uuid4(uuid_count + 1), ui.tool_path)

\* What that call does to the executor's state.
UiExecute ==
    /\ uuid_count' = uuid_count + 1
    /\ ncalls' = ncalls + 1
    /\ filters' = get_logger(filters, ui.tool_path, <<"dashboard_user">>,
                             uuid4(uuid_count + 1))
    /\ instance_count' = IF HasPath(_tools, ui.tool_path)
                         THEN instance_count + 1 ELSE instance_count
    /\ returned' = returned \cup
          {[call |-> ncalls + 1, request_id |-> Some(uuid4(uuid_count + 1))]}

NoExecute == UNCHANGED <<uuid_count, ncalls, filters, instance_count, returned>>

\* A callback has run.
UiOp ==
    /\ ui_ops < MaxUiOps
    /\ ui_ops' = ui_ops + 1
    /\ UNCHANGED <<_tools, call, modules, walked, _structure, _cache, getter,
                   factory_calls, received>>

\* A callback of the force-load page, which leaves the content area alone.
PageOp == UiOp /\ UNCHANGED content

\* _on_table_changed: the dropdown took another value.
OnTableChanged ==
    /\ PageOp
    /\ \E i \in 1..Len(TableNames) :
          /\ TableNames[i] # ui.table
          /\ ui' = [ui EXCEPT !.table = TableNames[i], !.current_data = None,
                              !.current_table_name = None, !.rendered = 0,
                              !.enabled = FALSE]
    /\ NoExecute
    /\ UNCHANGED FORCE_LOAD_TABLES

\* _on_load_table: get_default through the executor; on success
\* self.current_data = result.data['config'], the list the model returned.
OnLoadTable ==
    /\ PageOp
    /\ \E o \in UiOutcomes(Dict([table_name |-> Some(PyStr(ui.table)),
                                 action |-> Some(PyStr(<<"get_default">>))])) :
          IF UiResult(o).success
          THEN ui' = [ui EXCEPT !.current_data = Some(ui.table),
                                !.current_table_name = Some(ui.table),
                                !.rendered = Rendered(FORCE_LOAD_TABLES[ui.table]),
                                !.enabled = TRUE, !.output = "empty"]
          ELSE ui' = [ui EXCEPT !.output = "error"]
    /\ UiExecute
    /\ UNCHANGED FORCE_LOAD_TABLES

\* _on_cell_changed of the text widget of row row_idx (from 1), column
\* col_name: self.current_data[row_idx][col_name] = new_value; an index
\* beyond the list raises IndexError inside the callback.
OnCellChanged ==
    /\ PageOp
    /\ \E row_idx \in 1..ui.rendered, k \in 1..Len(required_keys),
          new_value \in CellValues :
          IF ui.current_data # None /\ row_idx <= Len(CurrentData)
          THEN FORCE_LOAD_TABLES' =
                  [FORCE_LOAD_TABLES EXCEPT
                      ![ui.current_data[1]][row_idx][required_keys[k]] =
                          Some(new_value)]
          ELSE UNCHANGED FORCE_LOAD_TABLES
    /\ NoExecute
    /\ UNCHANGED ui

\* _on_add_row: append an empty row to self.current_data and redraw.
OnAddRow ==
    /\ PageOp
    /\ ui.enabled
    /\ IF ui.current_table_name = None \/ ui.current_data = None
       THEN UNCHANGED <<FORCE_LOAD_TABLES, ui>>
       ELSE /\ FORCE_LOAD_TABLES' =
                  [FORCE_LOAD_TABLES EXCEPT ![ui.current_data[1]] =
                      Append(@, FullRow(EmptyStr, EmptyStr, EmptyStr))]
            /\ ui' = [ui EXCEPT !.rendered = Len(CurrentData) + 1]
    /\ NoExecute

\* _on_delete_row of the button of row row_idx: pop the row and redraw.
OnDeleteRow ==
    /\ PageOp
    /\ \E row_idx \in 1..ui.rendered :
          IF ui.current_data # None /\ row_idx <= Len(CurrentData)
          THEN LET rows == SubSeq(CurrentData, 1, row_idx - 1)
                            \o SubSeq(CurrentData, row_idx + 1, Len(CurrentData))
               IN  /\ FORCE_LOAD_TABLES' =
                         [FORCE_LOAD_TABLES EXCEPT ![ui.current_data[1]] = rows]
                   /\ ui' = [ui EXCEPT !.rendered = Rendered(rows)]
          ELSE UNCHANGED <<FORCE_LOAD_TABLES, ui>>
    /\ NoExecute

\* _on_dry_run_changed: the checkbox was toggled.
OnDryRunChanged ==
    /\ PageOp
    /\ ui.enabled
    /\ ui' = [ui EXCEPT !.dry_run = ~ui.dry_run]
    /\ NoExecute
    /\ UNCHANGED FORCE_LOAD_TABLES

\* _on_submit: nothing is executed for an empty list; else force_load with
\* the list and the checkbox's value.
OnSubmit ==
    /\ PageOp
    /\ ui.enabled
    /\ IF CurrentData = <<>>
       THEN /\ ui' = [ui EXCEPT !.output = "no_data"]
            /\ NoExecute
       ELSE /\ \E o \in UiOutcomes(Dict(
                           [table_name |-> Some(PyStr(ui.current_table_name[1])),
                            action |-> Some(PyStr(<<"force_load">>)),
                            config |-> Some(PyList(CurrentData)),
                            dry_run |-> Some(PyBool(ui.dry_run))])) :
                  ui' = [ui EXCEPT !.output =
                            IF UiResult(o).success THEN "success" ELSE "error"]
            /\ UiExecute
    /\ UNCHANGED FORCE_LOAD_TABLES

(***************************************************************************)
(* ui/registry.py, ui/components/navigation.py and content_area.py         *)
(***************************************************************************)
\* ui/registry.py: TOOL_UI_MAP, in the order it is written.
TOOL_UI_MAP ==
    << [path |-> <<"RAD", "/", "Ingestor", "/", "Timeline">>, cls |-> "TimelineUI"],
       [path |-> <<"RAD", "/", "Ingestor", "/", "Force Load">>, cls |-> "ForceLoadUI"] >>

\* ui/registry.py get_tool_ui_class: KeyError for a path not in the map.
get_tool_ui_class(tool_path) ==
    IF \E i \in 1..Len(TOOL_UI_MAP) : TOOL_UI_MAP[i].path = tool_path
    THEN [raised |-> None,
          cls |-> Some(TOOL_UI_MAP[CHOOSE i \in 1..Len(TOOL_UI_MAP) :
                                      TOOL_UI_MAP[i].path = tool_path].cls)]
    ELSE [raised |-> Some("KeyError"), cls |-> None]

\* for tool_name in value: the items of a list, the keys of a dictionary.
Iterate(entries, e) ==
    IF e.isdict THEN KeysAt(entries, e.at \o <<e.key>>) ELSE e.names

\* Navigation._add_subcategory_widgets on the dictionary at `at`, from its
\* entry i on: the full paths of the tool buttons it creates, in order.
RECURSIVE _add_subcategory_widgets(_, _, _, _)
_add_subcategory_widgets(entries, at, prefix, i) ==
    IF i > Len(entries) THEN <<>>
    ELSE LET e == entries[i]
             buttons ==
                 IF e.at # at THEN <<>>
                 ELSE IF e.key = "_tools"
                 THEN [j \in 1..Len(Iterate(entries, e)) |->
                          prefix \o <<"/", Iterate(entries, e)[j]>>]
                 ELSE _add_subcategory_widgets(entries, at \o <<e.key>>,
                                               prefix \o <<"/", e.key>>, 1)
         IN  buttons \o _add_subcategory_widgets(entries, at, prefix, i + 1)

\* Navigation._build_navigation from top-level category i on: every top-level
\* key is a category, whose dictionary _add_subcategory_widgets walks.
RECURSIVE _build_navigation(_, _)
_build_navigation(entries, i) ==
    IF i > Len(entries) THEN <<>>
    ELSE (IF entries[i].at # <<>> THEN <<>>
          ELSE _add_subcategory_widgets(entries, <<entries[i].key>>,
                                        <<entries[i].key>>, 1))
         \o _build_navigation(entries, i + 1)

\* The full paths of the navigation's tool buttons.
NavigationPaths == _build_navigation(get_structure(_structure), 1)

\* ContentArea.__init__: the welcome message, no tool UI.
NewContentArea == [shown |-> "welcome", tool_path |-> None, current_tool_ui |-> None]

\* ContentArea.load_tool: the tool's UI under its header, or the 'Failed to
\* Load Tool' error when the try block raised.
load_tool(area, tool_path) ==
    LET found == get_tool_ui_class(tool_path)
    IN  IF found.raised # None
        THEN [area EXCEPT !.shown = "Failed to Load Tool",
                          !.tool_path = Some(tool_path)]
        ELSE [shown |-> "tool", tool_path |-> Some(tool_path),
              current_tool_ui |-> found.cls]

\* A tool button of the navigation is clicked: app.on_tool_selected calls
\* content_area.load_tool, which constructs the tool's UI object.
SelectTool ==
    /\ UiOp
    /\ \E i \in 1..Len(NavigationPaths) :
          /\ content' = load_tool(content, NavigationPaths[i])
          /\ ui' = IF get_tool_ui_class(NavigationPaths[i]).cls = Some("ForceLoadUI")
                   THEN [NewForceLoadUI EXCEPT !.tool_path = NavigationPaths[i]]
                   ELSE ui
    /\ NoExecute
    /\ UNCHANGED FORCE_LOAD_TABLES

\* The content area displays the force-load page.
PageShown == content.shown = "tool" /\ content.current_tool_ui = Some("ForceLoadUI")

\* After initialize_backend(): the registry is built, the logger has no
\* filter, nothing has been executed.
Init ==
    /\ modules \in Installations
    /\ walked = Len(modules)
    /\ _tools = _discover_tools(modules)
    /\ _structure = BuiltStructure(_tools)
    /\ content = NewContentArea
    /\ _cache = NewCache
    /\ getter = [t \in Threads |-> IdleGetter]
    /\ factory_calls = [k \in LoaderKeys |-> [gets |-> 0, invoked |-> 0]]
    /\ received = {}
    /\ FORCE_LOAD_TABLES = DefaultTables
    /\ ui = NewForceLoadUI
    /\ ui_ops = 0
    /\ filters = <<>>
    /\ uuid_count = 0
    /\ instance_count = 0
    /\ ncalls = 0
    /\ call = [t \in Threads |-> IdleFrame]
    /\ returned = {}

\* Calls of the two threads interleaved step by step.
Next ==
    \E t \in Threads :
        \/ Begin(t)
        \/ LogStarted(t)
        \/ GetTool(t)
        \/ RunTool(t, FewToolOutcomes)
        \/ LogTerminal(t)
        \/ Return(t)

Spec == Init /\ [][Next]_vars

\* Calls made one after the other by a single thread, on tools of every
\* outcome.
NextSeq ==
    \E t \in {"t1"} :
        \/ Begin(t)
        \/ LogStarted(t)
        \/ GetTool(t)
        \/ RunTool(t, AnyToolOutcomes)
        \/ LogTerminal(t)
        \/ Return(t)

SpecSeq == Init /\ [][NextSeq]_vars

\* Registry construction followed by calls: the state before
\* initialize_backend() has built the registry, for every installation.
InitStartup ==
    /\ modules \in StartupInstallations
    /\ walked = 0
    /\ _tools = <<>>
    /\ _structure = NoStructure
    /\ content = NewContentArea
    /\ _cache = NewCache
    /\ getter = [t \in Threads |-> IdleGetter]
    /\ factory_calls = [k \in LoaderKeys |-> [gets |-> 0, invoked |-> 0]]
    /\ received = {}
    /\ FORCE_LOAD_TABLES = DefaultTables
    /\ ui = NewForceLoadUI
    /\ ui_ops = 0
    /\ filters = <<>>
    /\ uuid_count = 0
    /\ instance_count = 0
    /\ ncalls = 0
    /\ call = [t \in Threads |-> IdleFrame]
    /\ returned = {}

\* The paths looked up once the registry is built: two registered ones, one
\* that is registered only in some installations, two never registered.
LookupPaths ==
    { full_path("TimelineTool"), full_path("ForceLoadTool"), full_path("AnyTool"),
      full_path("ReplayTool"), <<"RAD", "/", "ingestor", "/", "force_load">> }

\* A call begins once initialize_backend() has returned.
BeginAfterStartup(t) ==
    /\ _structure.built /\ ~_structure.raised
    /\ BeginWith(t, {<<"alice">>}, LookupPaths, CallParams)

NextStartup ==
    \/ WalkModule
    \/ BuildStructure
    \/ \E t \in {"t1"} :
          \/ BeginAfterStartup(t)
          \/ LogStarted(t)
          \/ GetTool(t)
          \/ RunTool(t, FewToolOutcomes)
          \/ LogTerminal(t)
          \/ Return(t)

SpecStartup == InitStartup /\ [][NextStartup]_vars

\* The longest config list of a call.
MaxRows == 2

\* The values callers pass for desk and date; None: the parameter is left out.
DeskArgs ==
    { None, Some(PyStr(<<"Options">>)), Some(PyStr(<<"FXG">>)),
      Some(PyStr(<<"NotADesk">>)), Some(PyStr(<<"options">>)), Some(PyNone) }

DateArgs ==
    { None, Some(PyStr(<<"2025", "-", "01", "-", "15">>)),
      Some(PyStr(<<"2024", "-", "02", "-", "29">>)),
      Some(PyStr(<<"2025", "-", "02", "-", "29">>)),
      Some(PyStr(<<"2025", "-", "13", "-", "01">>)),
      Some(PyStr(<<"15", "/", "01", "/", "2025">>)),
      Some(PyStr(EmptyStr)), Some(PyInt("20250115")), Some(PyNone) }

\* The params of timeline calls, with or without a parameter run does not
\* declare.
TimelineParams ==
    { Dict([desk |-> d, date |-> dt, verbose |-> v]) :
        d \in DeskArgs, dt \in DateArgs, v \in {None, Some(PyBool(TRUE))} }

NextTimeline ==
    \E t \in {"t1"} :
        \/ BeginWith(t, {<<"alice">>}, {full_path("TimelineTool")}, TimelineParams)
        \/ LogStarted(t)
        \/ GetTool(t)
        \/ RunTool(t, AnyToolOutcomes)
        \/ LogTerminal(t)
        \/ Return(t)

SpecTimeline == Init /\ [][NextTimeline]_vars

\* The rows of the config lists: filled, blank, filled in part, and lacking
\* a key.
RowArgs ==
    { FullRow(<<"A">>, <<"a.key">>, <<"G">>), FullRow(<<"B">>, <<"b.key">>, <<"G">>),
      FullRow(EmptyStr, EmptyStr, EmptyStr),
      FullRow(<<"A">>, EmptyStr, EmptyStr),
      Row(Some(EmptyStr), Some(EmptyStr), None) }

\* The config lists of at most MaxRows rows.
ConfigLists ==
    { PyList(rows) : rows \in UNION { [1..n -> RowArgs] : n \in 0..MaxRows } }

\* The params of force-load calls: force_load on every config list as a dry
\* and as a real run; on a known table, an unknown one and None, every
\* action, also none, with dry_run left out, true and false, and config left
\* out, None or a list; calls without table_name or on an unknown table; calls
\* with a parameter run does not declare, with and without an action.
ForceLoadParams ==
    { Dict([table_name |-> Some(PyStr(<<"Inflation Env">>)),
            action |-> Some(PyStr(<<"force_load">>)),
            config |-> Some(c), dry_run |-> Some(PyBool(d))]) :
        c \in ConfigLists, d \in BOOLEAN }
    \cup
    { Dict([table_name |-> Some(tn), action |-> a, config |-> c, dry_run |-> d]) :
        tn \in { PyStr(<<"Inflation Env">>), PyStr(<<"Unknown">>), PyNone },
        a \in { None, Some(PyStr(<<"get_default">>)), Some(PyStr(<<"force_load">>)),
                Some(PyStr(<<"save">>)), Some(PyStr(<<"delete">>)) },
        c \in { None, Some(PyNone),
                Some(PyList(<< FullRow(<<"A">>, <<"a.key">>, <<"G">>),
                               FullRow(EmptyStr, EmptyStr, EmptyStr) >>)) },
        d \in { None, Some(PyBool(TRUE)), Some(PyBool(FALSE)) } }
    \cup
    { Dict([table_name |-> tn, action |-> a, config_data |-> cd]) :
        a \in { None, Some(PyStr(<<"get_default">>)) },
        tn \in { None, Some(PyStr(<<"Inflation Env">>)),
                 Some(PyStr(<<"Options ScenarioGamma">>)), Some(PyStr(<<"Unknown">>)) },
        cd \in { None, Some(PyList(<< FullRow(<<"A">>, <<"a.key">>, <<"G">>) >>)) } }

NextForceLoad ==
    \E t \in {"t1"} :
        \/ BeginWith(t, {<<"alice">>}, {full_path("ForceLoadTool")}, ForceLoadParams)
        \/ LogStarted(t)
        \/ GetTool(t)
        \/ RunTool(t, AnyToolOutcomes)
        \/ LogTerminal(t)
        \/ Return(t)

SpecForceLoad == Init /\ [][NextForceLoad]_vars

\* The dashboard in use: tools are selected in the navigation, and the
\* callbacks of the force-load page run while it is displayed.
NextApp ==
    \/ SelectTool
    \/ PageShown /\ OnTableChanged
    \/ PageShown /\ OnLoadTable
    \/ PageShown /\ OnCellChanged
    \/ PageShown /\ OnAddRow
    \/ PageShown /\ OnDeleteRow
    \/ PageShown /\ OnDryRunChanged
    \/ PageShown /\ OnSubmit

SpecApp == Init /\ [][NextApp]_vars

\* The model loader in use by the host's threads.
SpecLoader == Init /\ [][NextLoader]_vars

\* The call of test_force_load_tool in tests/integration_test.py: its path
\* and its params, one fully populated row under the name config_data.
IntegrationTestPath == <<"RAD", "/", "ingestor", "/", "force_load">>

IntegrationTestParams ==
    [table_name |-> PyStr(<<"Inflation Env">>),
     config_data |-> PyList(<< FullRow(<<"Config1">>, <<"test.key">>, <<"TEST">>) >>)]

\* The params of test_timeline_tool and of test_error_handling.
IntegrationTimelineParams ==
    { [desk |-> PyStr(d), date |-> PyStr(<<"2024", "-", "01", "-", "15">>)] :
        d \in { <<"Options">>, <<"InvalidDesk">> } }

\* The calls of tests/integration_test.py, in any order and number, and the
\* params of its force-load call sent to the path the tool is registered at.
NextIntegration ==
    \E t \in {"t1"} :
        \/ BeginWith(t, {<<"integration-test">>}, {full_path("TimelineTool")},
                     IntegrationTimelineParams)
        \/ BeginWith(t, {<<"integration-test">>},
                     {IntegrationTestPath, full_path("ForceLoadTool")},
                     {IntegrationTestParams})
        \/ LogStarted(t)
        \/ GetTool(t)
        \/ RunTool(t, AnyToolOutcomes)
        \/ LogTerminal(t)
        \/ Return(t)

SpecIntegration == Init /\ [][NextIntegration]_vars

\* The force-load page in use.
NextUI ==
    \/ OnTableChanged
    \/ OnLoadTable
    \/ OnCellChanged
    \/ OnAddRow
    \/ OnDeleteRow
    \/ OnDryRunChanged
    \/ OnSubmit

SpecUI == Init /\ [][NextUI]_vars

(***************************************************************************)
(* Properties of the executor                                              *)
(***************************************************************************)
InFlight == {"started", "lookup", "run", "outcome", "return"}

\* One step of t's execute call.
Step(t) ==
    \/ LogStarted(t) \/ GetTool(t) \/ RunTool(t, AnyToolOutcomes)
    \/ LogTerminal(t) \/ Return(t)

IsDone(t) == call[t].pc = "done"

\* The exception tool.run raised in t's call, when it raised one.
RunRaised(t) == call[t].run_invoked /\ call[t].outcome.kind = "raise"

\* C1: execute never raises to its caller: whatever the lookup and the run
\* did (return, ToolExecutionError of any class, unknown path, any other
\* exception), no call ends by an escaping exception, every call that is not
\* finished can take its next step, and a finished call has returned exactly
\* one Result.
ExecuteNeverRaises ==
    \A t \in Threads :
        /\ call[t].pc # "raised"
        /\ call[t].pc \in InFlight => ENABLED Step(t)
        /\ (call[t].pc = "done") <=> (call[t].result # None)
        /\ IsDone(t) =>
              Cardinality({r \in returned : r.call = call[t].call}) = 1

\* A call whose params did not match run's signature has returned.
ExecuteNeverRaisesWitness ==
    \E t \in Threads :
        /\ IsDone(t) /\ RunRaised(t)
        /\ call[t].outcome.exc[1].cls = "TypeError"
        /\ call[t].result # None

\* C2: every Result is one of two shapes: success with data present and no
\* error field, or failure with no data and non-empty error_message,
\* error_type and user_message.
ResultIsOneOfTwoShapes ==
    \A t \in Threads :
        IsDone(t) =>
            LET r == call[t].result[1]
            IN  /\ r.success =>
                      /\ r.data # None
                      /\ r.error_message = None /\ r.error_type = None
                      /\ r.user_message = None /\ r.traceback = None
                /\ ~r.success =>
                      /\ r.data = None
                      /\ Truthy(r.error_message) /\ Truthy(r.error_type)
                      /\ Truthy(r.user_message)

\* The three classified business error classes.
ClassifiedKinds ==
    {"ParameterValidationError", "DataAccessError", "BusinessLogicError"}

\* C3: a classified business error raised by run gives an Error Result whose
\* error_type is the error's own class, whose user_message is the error's
\* user_message verbatim, and which has no traceback.
BusinessErrorKeepsKindAndMessage ==
    \A t \in Threads :
        (IsDone(t) /\ RunRaised(t)
            /\ call[t].outcome.exc[1].cls \in ClassifiedKinds) =>
            LET r == call[t].result[1]
                e == call[t].outcome.exc[1]
            IN  /\ ~r.success
                /\ r.error_type = Some(<<e.cls>>)
                /\ r.user_message = e.user_message
                /\ r.traceback = None

\* A validation error with its own user_message has been returned.
BusinessErrorWitness ==
    \E t \in Threads :
        /\ IsDone(t) /\ RunRaised(t)
        /\ call[t].outcome.exc[1].cls = "ParameterValidationError"
        /\ call[t].outcome.exc[1].message = <<"Invalid desk">>
        /\ call[t].result[1].user_message = Some(<<"Please select a valid desk">>)

\* C4: any exception raised by run that is not a business error gives an
\* Error Result of the unexpected kind with a traceback, and the same
\* user_message whatever the exception's class or text.
UnexpectedErrorIsGeneric ==
    \A t \in Threads :
        (IsDone(t) /\ RunRaised(t)
            /\ ~IsSubclass(call[t].outcome.exc[1].cls, "ToolExecutionError")) =>
            /\ call[t].result[1].error_type = Some(<<"UnexpectedError">>)
            /\ call[t].result[1].traceback # None
            /\ \A o \in AnyToolOutcomes :
                  (o.kind = "raise"
                      /\ ~IsSubclass(o.exc[1].cls, "ToolExecutionError")) =>
                      BranchResult(o, call[t].request_id,
                                   call[t].tool_path).user_message
                          = call[t].result[1].user_message

\* C5: a call on an unregistered path never constructs a tool nor invokes a
\* run, and returns an Error Result tagged ToolNotFound.
UnregisteredPathShortCircuits ==
    \A t \in Threads :
        (call[t].pc \in {"run", "outcome", "return", "done"}
            /\ ~HasPath(_tools, call[t].tool_path)) =>
            /\ call[t].tool = None
            /\ ~call[t].run_invoked
            /\ IsDone(t) =>
                  /\ ~call[t].result[1].success
                  /\ call[t].result[1].error_type = Some(<<"ToolNotFound">>)

\* A call on a non-empty unregistered path has returned.
UnregisteredPathWitness ==
    \E t \in Threads :
        /\ IsDone(t)
        /\ call[t].tool_path = full_path("AnyTool")
        /\ ~HasPath(_tools, call[t].tool_path)
        /\ call[t].result[1].error_type = Some(<<"ToolNotFound">>)

\* The five taxonomy tags, as execute spells them.
TaxonomyTags ==
    { <<"ToolNotFound">>, <<"ParameterValidationError">>, <<"DataAccessError">>,
      <<"BusinessLogicError">>, <<"UnexpectedError">> }

\* C6: the error_type of every Error Result is one of the five taxonomy
\* tags, whatever error class the tool raised.
ErrorTypeInTaxonomy ==
    \A t \in Threads :
        (IsDone(t) /\ ~call[t].result[1].success) =>
            /\ call[t].result[1].error_type # None
            /\ call[t].result[1].error_type[1] \in TaxonomyTags

\* C7: every Result carries a non-empty request_id, the one of the context
\* given to the tool; calls in flight together hold different request ids
\* and no two calls return the same one.
RequestIdIsCallUnique ==
    /\ \A t \in Threads :
          IsDone(t) =>
              /\ Truthy(call[t].result[1].request_id)
              /\ call[t].result[1].request_id[1] = call[t].context[1].request_id
    /\ \A t, u \in Threads :
          (t # u /\ call[t].pc # "idle" /\ call[u].pc # "idle") =>
              call[t].context[1].request_id # call[u].context[1].request_id
    /\ \A a, b \in returned : a.call # b.call => a.request_id # b.request_id

\* Two overlapping calls, a success and an error: the one begun later has
\* returned, the earlier one is about to.
RequestIdWitness ==
    \E t, u \in Threads :
        /\ IsDone(t) /\ call[u].pc = "return"
        /\ call[u].call < call[t].call
        /\ call[t].result[1].success
        /\ call[u].outcome.kind = "raise"

\* The number of lines of a call with one of the events.
Count(lines, events) ==
    Cardinality({i \in 1..Len(lines) : lines[i].event \in events})

TerminalEvents == {"completed", "not_found", "failed", "unexpected"}

\* The terminal event the outcome of a call asks for.
ExpectedTerminal(outcome) ==
    IF outcome.kind = "return" THEN "completed"
    ELSE IF outcome.exc[1].cls = "ToolNotFoundError" THEN "not_found"
    ELSE IF IsSubclass(outcome.exc[1].cls, "ToolExecutionError") THEN "failed"
    ELSE "unexpected"

\* C8: a call writes exactly one started line, first of all and before the
\* lookup, and exactly one terminal line, the one of its branch, last of
\* all, once the outcome is known and before the Result is returned.
OneStartedOneTerminalLine ==
    \A t \in Threads :
        LET f == call[t]
        IN  /\ Count(f.lines, {"started"}) =
                  (IF f.pc \in {"idle", "started"} THEN 0 ELSE 1)
            /\ f.pc \notin {"idle", "started"} => f.lines[1].event = "started"
            /\ Count(f.lines, TerminalEvents) =
                  (IF f.pc \in {"return", "done"} THEN 1 ELSE 0)
            /\ f.pc \in {"return", "done"} =>
                  f.lines[Len(f.lines)].event = ExpectedTerminal(f.outcome)
            /\ f.result # None => Count(f.lines, TerminalEvents) = 1

\* A business failure and an unknown path have both been logged and returned.
LogLinesWitness ==
    \E t, u \in Threads :
        /\ IsDone(t) /\ IsDone(u)
        /\ Len(call[t].lines) = 3
        /\ call[t].lines[3].event = "failed"
        /\ call[u].lines[Len(call[u].lines)].event = "not_found"

\* A line carries a value of the call: the value itself, or nothing when
\* the value is empty.
Carries(field, value) ==
    IF value = EmptyStr THEN field \in {None, Some(EmptyStr)}
    ELSE field = Some(value)

\* C9: every line a call writes carries the tool_path, user and request_id
\* of that call.
LinesCarryOwnContext ==
    \A t \in Threads :
        \A i \in 1..Len(call[t].lines) :
            /\ Carries(call[t].lines[i].tool_path, call[t].tool_path)
            /\ Carries(call[t].lines[i].user, call[t].user)
            /\ Carries(call[t].lines[i].request_id, call[t].request_id)

\* C10: for every registered path p, get_tool(p) returns a newly constructed
\* tool whose full_path is p.
GetToolReturnsFreshToolAtPath ==
    /\ \A i \in 1..Len(_tools) :
          LET r == get_tool(_tools, _tools[i].path, instance_count + 1)
          IN  /\ r.raised = None
              /\ full_path(r.tool[1].cls) = _tools[i].path
              /\ \A t \in Threads :
                    call[t].tool # None => call[t].tool[1].id # r.tool[1].id
    /\ \A t \in Threads :
          call[t].tool # None =>
              /\ full_path(call[t].tool[1].cls) = call[t].tool_path
              /\ call[t].tool[1].id <= instance_count
    /\ \A t, u \in Threads :
          (t # u /\ call[t].tool # None /\ call[u].tool # None) =>
              call[t].tool[1].id # call[u].tool[1].id

\* Two calls hold tools looked up in a registry of three paths.
GetToolWitness ==
    /\ Len(_tools) = 3
    /\ \A t \in Threads : call[t].tool # None

(***************************************************************************)
(* Properties of the registry                                              *)
(***************************************************************************)
ConstructionDone == _structure.built /\ ~_structure.raised

\* The message of a failed lookup names the path p.
Lists(message, p) == Contains(message, <<"'">> \o p \o <<"'">>)

\* A lookup of an unregistered path, looked at as a function of the mapping.
FailedLookup(p) ==
    LET r == get_tool(_tools, p, instance_count + 1)
    IN  /\ r.tool = None
        /\ r.raised # None
        /\ r.raised[1].cls = "ToolNotFoundError"
        /\ \A i \in 1..Len(_tools) : Lists(r.raised[1].message, _tools[i].path)

\* C11: for every path that is not registered, get_tool fails with
\* ToolNotFoundError, its message lists every registered path, no tool is
\* constructed or put in its place, and the lookup leaves the mapping as
\* construction built it.
UnknownPathLookupFails ==
    /\ [](\A p \in LookupPaths \cup {EmptyStr} :
              ~HasPath(_tools, p) => FailedLookup(p))
    /\ [](ConstructionDone => _tools = _discover_tools(modules))
    /\ [][\A t \in Threads :
            (GetTool(t) /\ ~HasPath(_tools, call[t].tool_path)) =>
                /\ _tools' = _tools
                /\ instance_count' = instance_count
                /\ call'[t].tool = None
                /\ call'[t].outcome.kind = "raise"
                /\ call'[t].outcome.exc[1].cls = "ToolNotFoundError"
                /\ \A i \in 1..Len(_tools) :
                      Lists(call'[t].outcome.exc[1].message, _tools[i].path)]_vars

\* A lookup of the path the integration test uses for the force-load tool
\* has failed in a registry of three paths.
UnknownPathWitness ==
    /\ Len(_tools) = 3
    /\ \E t \in Threads :
          /\ call[t].pc = "outcome"
          /\ call[t].tool_path = <<"RAD", "/", "ingestor", "/", "force_load">>
          /\ call[t].outcome.kind = "raise"
          /\ call[t].tool = None

\* The constructible tool classes of the importable modules, by position.
InstalledClasses ==
    { <<i, j>> \in (1..Len(modules)) \X (1..2) :
        /\ modules[i].importable
        /\ j <= Len(modules[i].classes)
        /\ Constructible(modules[i].classes[j]) }

\* Two tool classes of the installation have the same full path.
DuplicatePaths ==
    \E a, b \in InstalledClasses :
        /\ a # b
        /\ full_path(modules[a[1]].classes[a[2]])
              = full_path(modules[b[1]].classes[b[2]])

\* C12: when two tool classes of the installation have the same full path,
\* Registry construction does not complete: the duplicate is never passed
\* over with one of the two registered.
DuplicatePathAbortsStartup ==
    DuplicatePaths => ~ConstructionDone

(***************************************************************************)
(* Properties of the timeline tool                                         *)
(***************************************************************************)
\* The params of t's call.
ParamsOf(t) == call[t].params[1]

\* The ISO dates among the date strings.
ValidIsoDates ==
    { <<"2025", "-", "01", "-", "15">>, <<"2024", "-", "02", "-", "29">> }

\* A timeline call that passes exactly desk and date.
TimelineCall(t) ==
    /\ call[t].pc # "idle"
    /\ call[t].tool_path = <<"RAD", "/", "ingestor", "/", "timeline">>
    /\ DOMAIN ParamsOf(t) = {"desk", "date"}

AllowedDesk(desk) ==
    desk.type = "str"
    /\ desk.str \in {<<"Options">>, <<"Exotics">>, <<"Inflation">>, <<"LDFX">>, <<"FXG">>}

\* C13: a timeline call with an allowed desk and a valid ISO date succeeds
\* with exactly 10 records whose overwrite flags are false, true, false, ...,
\* and a summary of 10 records, 5 overwrites, earliest the queried date and
\* latest the queried date plus 9 hours.
TimelineQueryReturnsTenRecords ==
    \A t \in Threads :
        (IsDone(t) /\ TimelineCall(t) /\ AllowedDesk(ParamsOf(t).desk)
            /\ ParamsOf(t).date.type = "str"
            /\ ParamsOf(t).date.str \in ValidIsoDates) =>
            LET r == call[t].result[1]
                d == r.data[1]
            IN  /\ r.success
                /\ Len(d.records) = 10
                /\ \A i \in 1..Len(d.records) :
                      d.records[i].overwrite = (i % 2 = 0)
                /\ d.summary.total_records = 10
                /\ d.summary.overwrite_count = 5
                /\ d.summary.date_range.earliest =
                      Some(ParamsOf(t).date.str \o <<"T", "00", ":00:00">>)
                /\ d.summary.date_range.latest =
                      Some(ParamsOf(t).date.str \o <<"T", "09", ":00:00">>)

\* A query for the leap day has succeeded.
TimelineQueryWitness ==
    \E t \in Threads :
        /\ IsDone(t) /\ TimelineCall(t)
        /\ ParamsOf(t).desk = PyStr(<<"FXG">>)
        /\ ParamsOf(t).date = PyStr(<<"2024", "-", "02", "-", "29">>)
        /\ call[t].result[1].success

\* C14: a timeline call whose desk is not allowed returns a
\* ParameterValidationError Result whose user_message names every valid
\* desk, whatever the date is (valid, malformed or not a string), and the run
\* stops at the desk check: nothing is fetched.
InvalidDeskRejectedFirst ==
    \A t \in Threads :
        (IsDone(t) /\ TimelineCall(t) /\ ~AllowedDesk(ParamsOf(t).desk)) =>
            LET r == call[t].result[1]
            IN  /\ ~r.success
                /\ r.data = None
                /\ r.error_type = Some(<<"ParameterValidationError">>)
                /\ \A desk \in {<<"Options">>, <<"Exotics">>, <<"Inflation">>,
                                <<"LDFX">>, <<"FXG">>} :
                      Contains(r.user_message[1], desk)
                /\ Count(call[t].lines, {"tool"}) = 1

\* An unknown desk was rejected in a call whose date is not a string.
InvalidDeskWitness ==
    \E t \in Threads :
        /\ IsDone(t) /\ TimelineCall(t)
        /\ ParamsOf(t).desk = PyStr(<<"NotADesk">>)
        /\ ParamsOf(t).date = PyInt("20250115")
        /\ call[t].result[1].error_type = Some(<<"ParameterValidationError">>)

\* The call leaves out a parameter run requires, or passes one it does not
\* declare.
BadKeywords(t) ==
    LET declared == IF call[t].tool_path = <<"RAD", "/", "ingestor", "/", "timeline">>
                    THEN {"desk", "date"}
                    ELSE {"table_name", "action", "config", "dry_run"}
        required == IF call[t].tool_path = <<"RAD", "/", "ingestor", "/", "timeline">>
                    THEN {"desk", "date"}
                    ELSE {"table_name"}
    IN  \/ \E k \in DOMAIN ParamsOf(t) : k \notin declared
        \/ \E k \in required : k \notin DOMAIN ParamsOf(t)

\* A timeline call whose date is not a parseable ISO date.
BadDate(t) ==
    /\ TimelineCall(t)
    /\ ~(ParamsOf(t).date.type = "str" /\ ParamsOf(t).date.str \in ValidIsoDates)

\* C15: a call whose input fails the tool's declared precondition (a required
\* parameter left out, a parameter the tool does not declare, a date that is
\* not a parseable ISO date, a non-string included) returns a
\* ParameterValidationError Result with the tool's own user message, never
\* an UnexpectedError one.
BadInputIsParameterValidation ==
    \A t \in Threads :
        (IsDone(t) /\ HasPath(_tools, call[t].tool_path)
            /\ (BadKeywords(t) \/ BadDate(t))) =>
            /\ ~call[t].result[1].success
            /\ call[t].result[1].error_type = Some(<<"ParameterValidationError">>)
            /\ call[t].result[1].traceback = None

(***************************************************************************)
(* Properties of the force-load tool                                       *)
(***************************************************************************)
\* C16: get_default returns, for every table, the rows the module defines
\* for it (three rows with configName, key and group for 'Inflation Env'),
\* whatever executions and page operations came before.
DefaultRowsNeverChange ==
    /\ Len(DefaultTables[<<"Inflation Env">>]) = 3
    /\ \A i \in 1..Len(TableNames) :
          \A o \in ForceLoadRun([table_name |-> PyStr(TableNames[i]),
                                 action |-> PyStr(<<"get_default">>),
                                 config |-> PyNone, dry_run |-> PyBool(TRUE)]) :
              /\ o.kind = "return"
              /\ o.data[1].config = DefaultTables[TableNames[i]]

\* A force-load call on a known table with declared parameters only.
ForceLoadCall(t) ==
    /\ call[t].pc # "idle"
    /\ call[t].tool_path = <<"RAD", "/", "Ingestor", "/", "Force Load">>
    /\ DOMAIN ParamsOf(t) \subseteq {"table_name", "action", "config", "dry_run"}
    /\ "table_name" \in DOMAIN ParamsOf(t)
    /\ ParamsOf(t).table_name = PyStr(<<"Inflation Env">>)

\* The value the call passes for a parameter, None when it leaves it out.
Passed(t, k) ==
    IF k \in DOMAIN ParamsOf(t) THEN Some(ParamsOf(t)[k]) ELSE None

\* The label of the message of a load result.
Label(data) == data.message[2]

\* C17: a load (action force_load, save or left out) is a real run only when
\* the call passes dry_run = False; with dry_run left out or True the result
\* is labelled a dry run.
DryRunUnlessExplicitlyFalse ==
    \A t \in Threads :
        (IsDone(t) /\ ForceLoadCall(t) /\ call[t].result[1].success
            /\ Passed(t, "action") \in {None, Some(PyStr(<<"force_load">>)),
                                        Some(PyStr(<<"save">>))}) =>
            IF Passed(t, "dry_run") = Some(PyBool(FALSE))
            THEN Label(call[t].result[1].data[1]) = "force load"
            ELSE Label(call[t].result[1].data[1]) = "dry run"

\* A force_load call that passes a config list.
ForceLoadWithConfig(t) ==
    /\ ForceLoadCall(t)
    /\ Passed(t, "action") = Some(PyStr(<<"force_load">>))
    /\ "config" \in DOMAIN ParamsOf(t)
    /\ ParamsOf(t).config.type = "list"

ConfigOf(t) == ParamsOf(t).config.items

\* A field of a row holds a non-empty value.
Populated(row, k) == row[k] # None /\ row[k][1] # EmptyStr

FullyPopulated(row) == \A k \in DOMAIN row : Populated(row, k)

\* Some but not all of the three fields are populated.
PartlyPopulated(row) ==
    (\E k \in DOMAIN row : Populated(row, k)) /\ ~FullyPopulated(row)

\* The row lacks one of the three keys.
LacksKey(row) == \E k \in DOMAIN row : row[k] = None

\* All three keys are there, with empty values.
FullyEmpty(row) == \A k \in DOMAIN row : row[k] = Some(EmptyStr)

\* The first row of the list with the property (0: none).
FirstRow(rows, P(_)) ==
    IF \E i \in 1..Len(rows) : P(rows[i])
    THEN CHOOSE i \in 1..Len(rows) :
            P(rows[i]) /\ \A j \in 1..(i - 1) : ~P(rows[j])
    ELSE 0

\* The Result of t is a validation error whose user_message names row i.
RejectsRow(t, i) ==
    LET r == call[t].result[1]
    IN  /\ ~r.success
        /\ r.data = None
        /\ r.error_type = Some(<<"ParameterValidationError">>)
        /\ Contains(r.user_message[1], <<"Row ", ToString(i)>>)

\* C18 as stated: when some row is populated in part, the call fails with a
\* ParameterValidationError whose user_message names the 1-based index of
\* the first such row, and produces no records.
PartialRowNamedByIndex ==
    \A t \in Threads :
        (IsDone(t) /\ ForceLoadWithConfig(t)
            /\ FirstRow(ConfigOf(t), PartlyPopulated) > 0) =>
            RejectsRow(t, FirstRow(ConfigOf(t), PartlyPopulated))

\* A row validate_config rejects.
Rejected(row) == LacksKey(row) \/ PartlyPopulated(row)

\* C18: when some row is populated in part, the call fails with a
\* ParameterValidationError and produces no records; its user_message names
\* the 1-based index of the first row that is populated in part or lacks one
\* of the three keys.
FirstRejectedRowNamedByIndex ==
    \A t \in Threads :
        (IsDone(t) /\ ForceLoadWithConfig(t)
            /\ FirstRow(ConfigOf(t), PartlyPopulated) > 0) =>
            RejectsRow(t, FirstRow(ConfigOf(t), Rejected))

\* A list whose second row is the partial one was rejected for row 2.
PartialRowWitness ==
    \E t \in Threads :
        /\ IsDone(t) /\ ForceLoadWithConfig(t)
        /\ Len(ConfigOf(t)) = 2
        /\ FullyEmpty(ConfigOf(t)[1])
        /\ PartlyPopulated(ConfigOf(t)[2])
        /\ RejectsRow(t, 2)

\* The three config fields of a row or record.
Fields(x) == <<x.configName, x.key, x.group>>

\* C19: for a config whose rows are each fully populated or fully empty, one
\* at least populated, force_load succeeds; records holds one record per
\* populated row, in the list's order and with its configName, key and
\* group; empty rows give no record; rows_processed is the number of records.
PopulatedRowsBecomeRecords ==
    \A t \in Threads :
        (IsDone(t) /\ ForceLoadWithConfig(t)
            /\ (\A i \in 1..Len(ConfigOf(t)) :
                    FullyPopulated(ConfigOf(t)[i]) \/ FullyEmpty(ConfigOf(t)[i]))
            /\ (\E i \in 1..Len(ConfigOf(t)) : FullyPopulated(ConfigOf(t)[i]))) =>
            LET r == call[t].result[1]
                rows == SelectSeq(ConfigOf(t), FullyPopulated)
            IN  /\ r.success
                /\ Len(r.data[1].records) = Len(rows)
                /\ \A i \in 1..Len(rows) :
                      Fields(r.data[1].records[i])
                          = <<rows[i].configName[1], rows[i].key[1], rows[i].group[1]>>
                /\ r.data[1].rows_processed = Len(r.data[1].records)

\* An empty row followed by a populated one gave one record.
PopulatedRowsWitness ==
    \E t \in Threads :
        /\ IsDone(t) /\ ForceLoadWithConfig(t)
        /\ Len(ConfigOf(t)) = 2
        /\ FullyEmpty(ConfigOf(t)[1])
        /\ FullyPopulated(ConfigOf(t)[2])
        /\ call[t].result[1].success
        /\ call[t].result[1].data[1].rows_processed = 1

\* The params of t's call with dry_run negated.
OtherMode(t) ==
    [ParamsOf(t) EXCEPT !.dry_run = PyBool(~PyTruth(@))]

\* The config fields of the records of a load result, in order.
FieldSeq(data) == [i \in 1..Len(data.records) |-> Fields(data.records[i])]

\* C20: a force_load as a dry run and as a real run, on the same table and
\* config, fail with the same validation error or both succeed; on success
\* they agree on rows_processed and on the configName/key/group sequence of
\* the records, and their messages differ in the label only.
DryAndRealRunAgree ==
    \A t \in Threads :
        (call[t].pc \in {"outcome", "return", "done"} /\ ForceLoadCall(t)
            /\ Passed(t, "action") = Some(PyStr(<<"force_load">>))
            /\ Passed(t, "dry_run") \in {Some(PyBool(TRUE)), Some(PyBool(FALSE))}) =>
            \A o \in RunOutcomes(call[t].tool[1].cls, call[t].context[1],
                                 OtherMode(t), {}) :
                LET mine == call[t].outcome
                IN  /\ o.kind = mine.kind
                    /\ o.kind = "raise" => o.exc = mine.exc
                    /\ o.kind = "return" =>
                          /\ o.data[1].rows_processed = mine.data[1].rows_processed
                          /\ FieldSeq(o.data[1]) = FieldSeq(mine.data[1])
                          /\ o.data[1].table_name = mine.data[1].table_name
                          /\ Label(o.data[1]) # Label(mine.data[1])
                          /\ [o.data[1].message EXCEPT ![2] = "mode"]
                                = [mine.data[1].message EXCEPT ![2] = "mode"]

\* A dry run of a list with a partial row has failed.
DryAndRealRunWitness ==
    \E t \in Threads :
        /\ IsDone(t) /\ ForceLoadWithConfig(t)
        /\ Passed(t, "dry_run") = Some(PyBool(TRUE))
        /\ FirstRow(ConfigOf(t), PartlyPopulated) > 0
        /\ ~call[t].result[1].success

(***************************************************************************)
(* Properties of the force-load tool, continued                            *)
(***************************************************************************)
\* A call of the force-load tool with declared parameters only.
ForceLoadToolCall(t) ==
    /\ call[t].pc # "idle"
    /\ call[t].tool_path = <<"RAD", "/", "Ingestor", "/", "Force Load">>
    /\ DOMAIN ParamsOf(t) \subseteq {"table_name", "action", "config", "dry_run"}
    /\ "table_name" \in DOMAIN ParamsOf(t)

\* The Result of t is a ParameterValidationError without data.
IsParameterValidation(t) ==
    LET r == call[t].result[1]
    IN  /\ ~r.success
        /\ r.data = None
        /\ r.error_type = Some(<<"ParameterValidationError">>)

\* C21: a force_load call whose config is left out, None or an empty list
\* fails with a ParameterValidationError and carries no data: no record was
\* made, and the run ended before the line that logs the load.
EmptyConfigRejected ==
    \A t \in Threads :
        (IsDone(t) /\ ForceLoadCall(t)
            /\ Passed(t, "action") = Some(PyStr(<<"force_load">>))
            /\ Passed(t, "config") \in {None, Some(PyNone), Some(PyList(<<>>))}) =>
            /\ IsParameterValidation(t)
            /\ call[t].outcome.nlines <= 2

\* A force_load call on an empty list was rejected.
EmptyConfigWitness ==
    \E t \in Threads :
        /\ IsDone(t) /\ ForceLoadCall(t)
        /\ Passed(t, "action") = Some(PyStr(<<"force_load">>))
        /\ Passed(t, "config") = Some(PyList(<<>>))
        /\ IsParameterValidation(t)

\* C22: a call whose table_name is not a known table fails with the
\* ParameterValidationError that lists the valid tables, whatever action,
\* config and dry_run it passes or leaves out.
UnknownTableRejectedFirst ==
    \A t \in Threads :
        (IsDone(t) /\ ForceLoadToolCall(t) /\ ~IsTable(ParamsOf(t).table_name)) =>
            LET r == call[t].result[1]
            IN  /\ IsParameterValidation(t)
                /\ r.error_message = Some(InvalidTable(ParamsOf(t).table_name).message)
                /\ \A i \in 1..Len(TableNames) :
                      Contains(r.user_message[1], TableNames[i])

\* A call on an unknown table with an invalid action, and one that asks for
\* a real load without a config, were both rejected for the table.
UnknownTableWitness ==
    \E t \in Threads :
        /\ IsDone(t) /\ ForceLoadToolCall(t)
        /\ ParamsOf(t).table_name = PyStr(<<"Unknown">>)
        /\ Passed(t, "action") = Some(PyStr(<<"delete">>))
        /\ Passed(t, "dry_run") = Some(PyBool(FALSE))
        /\ Contains(call[t].result[1].user_message[1], <<"Options ScenarioGamma">>)

(***************************************************************************)
(* Properties of the model loader                                          *)
(***************************************************************************)
\* C23: the cache is construct-once-read-many: whatever the interleaving of
\* the threads' get() calls, the factory of a key is invoked at most once
\* and every value returned for the key is the same instance.
ConstructOnceReadMany ==
    \A k \in LoaderKeys :
        /\ factory_calls[k].invoked <= 1
        /\ \A a, b \in received : (a.key = k /\ b.key = k) => a.instance = b.instance

(***************************************************************************)
(* Properties of the navigation and the content area                       *)
(***************************************************************************)
\* The paths in a sequence of paths.
PathSet(paths) == { paths[i] : i \in 1..Len(paths) }

\* C24: the two registries agree: 'RAD/Ingestor/Timeline' and
\* 'RAD/Ingestor/Force Load' are registered backend paths, every registered
\* path and every navigation entry has a UI class, and the content area
\* never shows 'Failed to Load Tool' for a selected tool.
RegistriesAgree ==
    /\ HasPath(_tools, <<"RAD", "/", "Ingestor", "/", "Timeline">>)
    /\ HasPath(_tools, <<"RAD", "/", "Ingestor", "/", "Force Load">>)
    /\ \A p \in PathSet(list_all_tools(_tools)) \cup PathSet(NavigationPaths) :
          get_tool_ui_class(p).raised = None
    /\ content.shown # "Failed to Load Tool"

(***************************************************************************)
(* Properties of the integration test's call                               *)
(***************************************************************************)
\* C25: the call of test_force_load_tool (path 'RAD/ingestor/force_load',
\* params table_name and config_data, no action) returns a success Result
\* whose data reports rows_processed.
IntegrationCallSucceeds ==
    \A t \in Threads :
        (IsDone(t) /\ call[t].tool_path = IntegrationTestPath
            /\ ParamsOf(t) = IntegrationTestParams) =>
            /\ call[t].result[1].success
            /\ call[t].result[1].data # None
            /\ "rows_processed" \in DOMAIN call[t].result[1].data[1]

(***************************************************************************)
(* Properties of the category tree                                         *)
(***************************************************************************)
\* How many times a path occurs in a sequence of paths.
Occurrences(paths, p) == Cardinality({ i \in 1..Len(paths) : paths[i] = p })

\* C26: for every set of registered tools, building the tree does not fail,
\* and the walk of the navigation over it yields exactly the registered
\* paths, each once.
TreeIsExactView ==
    _structure.built =>
        /\ ~_structure.raised
        /\ \A p \in PathSet(list_all_tools(_tools)) \cup PathSet(NavigationPaths) :
              /\ Occurrences(list_all_tools(_tools), p) = 1
              /\ Occurrences(NavigationPaths, p) = 1

(***************************************************************************)
(* Properties of discovery                                                 *)
(***************************************************************************)
\* The class is registered.
IsRegistered(cls) == \E i \in 1..Len(_tools) : _tools[i].cls = cls

ToolNotFoundOnlyForUnknownPath ==
    \A t \in Threads :
        (IsDone(t) /\ HasPath(_tools, call[t].tool_path) /\ call[t].run_invoked) =>
            call[t].result[1].error_type # Some(<<"ToolNotFound">>)

(***************************************************************************)
(* Properties of the force-load page, continued                            *)
(***************************************************************************)
\* C29: while a table is loaded, the table editor shows as many rows as
\* current_data holds, whatever rows were added or deleted, and no submit is
\* answered with 'Please load a table first'.
EditorShowsCurrentData ==
    ui.current_table_name # None =>
        /\ ui.rendered = Len(CurrentData)
        /\ ui.output # "no_data"

(***************************************************************************)
(* Properties of the force-load model, continued                           *)
(***************************************************************************)
\* C30: a load (action force_load, save or left out) that returns success
\* has processed at least one row: rows_processed >= 1 and records is not
\* empty.
SuccessfulLoadHasRows ==
    \A t \in Threads :
        (IsDone(t) /\ ForceLoadCall(t) /\ call[t].result[1].success
            /\ Passed(t, "action") \in {None, Some(PyStr(<<"force_load">>)),
                                        Some(PyStr(<<"save">>))}) =>
            /\ call[t].result[1].data[1].rows_processed >= 1
            /\ call[t].result[1].data[1].records # <<>>
====
